---------------------------- MODULE Spec2Model ----------------------------
(***************************************************************************)
(* Dual KPI custom visual: a model of the widget's update / pointer-event  *)
(* state machine for the two implementations found in the repository:      *)
(*   "rebuild" : src/src/visual.ts      (every update rebuilds the SVG)    *)
(*   "reuse"   : src/unnamed/part_000   (persistent nodes, attributes are  *)
(*                                       updated in place)                 *)
(*                                                                         *)
(* Conventions                                                             *)
(*   - a nullable / possibly undefined JavaScript value is a sequence of   *)
(*     length 0 (null, undefined, empty d3 selection) or 1 (the value);    *)
(*   - column indices are 0-based as in the source, -1 meaning "unset";    *)
(*   - a Date is the integer getTime() gives, counted in units of twelve   *)
(*     hours, so that oneDay = 2 and the epoch, new Date(null), is 0;      *)
(*   - heights that the source halves are kept doubled (chartHeight2).     *)
(***************************************************************************)
EXTENDS Integers, Sequences, FiniteSets, TLC

VARIABLES
    variant,        \* which implementation this widget instance runs
    dataView,       \* this.dataView
    data,           \* this.data (0 or 1 IDualKpiData)
    size,           \* this.size
    sizeCssClass,   \* this.sizeCssClass
    viewport,       \* this.viewport (reuse variant only; 0 or 1 IViewport)
    svgAttrs,       \* width / height attributes of this.svgRoot
    svgChildren,    \* the child elements of this.svgRoot, in document order
    panels,         \* per panel: the chart group the widget / its closures draw into
    footer,         \* this.bottomContainer
    closures,       \* the function objects created so far, in creation order
    listeners,      \* listeners registered on this.target, in registration order
    nUpdates,       \* number of update calls made so far
    calc,           \* the most recent call of a helper function on its own
    mobileTooltip,  \* this.mobileTooltip (0 or 1 popup: its class hidden, its html)
    last            \* what the most recent operation was and what it was given

vars == << variant, dataView, data, size, sizeCssClass, viewport, svgAttrs,
           svgChildren, panels, footer, closures, listeners, nUpdates, calc,
           mobileTooltip, last >>

----------------------------------------------------------------------------
(* Generic helpers *)

Null == << >>

Some(x) == << x >>

IsNull(m) == Len(m) = 0

Max2(a, b) == IF a >= b THEN a ELSE b

Abs(x) == IF x < 0 THEN -x ELSE x

SetMin(S) == CHOOSE x \in S : \A y \in S : x <= y

SetMax(S) == CHOOSE x \in S : \A y \in S : x >= y

Variants == { "rebuild", "reuse" }

PanelNames == { "top", "bottom" }

----------------------------------------------------------------------------
(* Bounds of the model *)

\* update calls per behaviour (every update with data adds listeners for good)
MaxUpdates == 2

\* rows in a bound table
MaxRows == 2

\* start and end values handed to getPercentChange lie in -MaxValue .. MaxValue
MaxValue == 16

\* points in a series handed to getPercentChangeStartPoint, and the dates
\* they may carry (1 .. MaxPoints, in any order, repeats included)
MaxPoints == 3

\* characters in a column's format string handed to the converter
MaxFormatLen == 2

\* metadata columns of a data view handed to the converter
MaxColumns == 3

----------------------------------------------------------------------------
(* Program constants *)

\* update: minimum height / width of the drawing area
MinHeight == 90

MinWidth == 220

\* update: size-class thresholds on the clamped height
LargeHeight == 450

MediumHeight == 280

SmallHeight == 120

\* this.chartLeftMargin, and margin.left for medium / large
chartLeftMargin == 30

WideLeftMargin == 40

\* drawChart: margin.top
MarginTop == 5

\* onMousemove: slack added to twice the panel height in the bounds check
HoverSlack == 15

\* getDaysBetween: oneDay, in the model's twelve-hour time unit
oneDay == 2

\* defaultValues.staleDataThreshold
DefaultStaleDataThreshold == 2

----------------------------------------------------------------------------
(* The host's inputs: data views, viewports, clock, pointer events *)

Roles == { "axis", "topvalues", "bottomvalues", "warningstate",
           "toppercentdate", "bottompercentdate" }

\* A metadata column: its roles, display name and format string (a sequence of
\* characters), and src, the field of a table row that the column's cells hold.
Col(roles, src, displayName, format) ==
    [ roles |-> roles, src |-> src, displayName |-> displayName, format |-> format ]

\* no warningstate column
LayoutNoWarning ==
    << Col({"axis"}, "d", "Date", << >>),
       Col({"topvalues"}, "t", "Sales", << "$", "#" >>),
       Col({"bottomvalues"}, "b", "Units", << >>) >>

\* the warningstate column is column 0
LayoutWarningFirst ==
    << Col({"warningstate"}, "w", "State", << >>),
       Col({"axis"}, "d", "Date", << >>),
       Col({"topvalues"}, "t", "Sales", << >>),
       Col({"bottomvalues"}, "b", "Share", << "0", "%" >>) >>

\* the warningstate column is the last column
LayoutWarningLast ==
    << Col({"axis"}, "d", "Date", << >>),
       Col({"topvalues"}, "t", "Sales", << >>),
       Col({"bottomvalues"}, "b", "Units", << >>),
       Col({"warningstate"}, "w", "State", << >>) >>

Layouts == { LayoutNoWarning, LayoutWarningFirst, LayoutWarningLast }

\* one column carries both percent-date roles
LayoutPercentDates ==
    << Col({"axis"}, "d", "Date", << >>),
       Col({"topvalues"}, "t", "Sales", << >>),
       Col({"bottomvalues"}, "b", "Units", << >>),
       Col({"toppercentdate", "bottompercentdate"}, "p", "Since", << >>) >>

\* Table rows in ascending date order: d the date, t and b the two measures,
\* w the warning state, p the percent-change reference date.
RowPool ==
    << [ d |-> 4,  t |-> 5, b |-> 3, w |-> 0,  p |-> 8 ],
       [ d |-> 8,  t |-> 2, b |-> 7, w |-> -1, p |-> 4 ],
       [ d |-> 11, t |-> 8, b |-> 0, w |-> 1,  p |-> 4 ] >>

\* a table whose dates lie before 1970-01-01 (the model's date 0)
OldTable ==
    << [ d |-> -6, t |-> 5, b |-> 3, w |-> 0, p |-> -6 ],
       [ d |-> -2, t |-> 2, b |-> 7, w |-> 0, p |-> -6 ] >>

\* the tables the host binds: the first n pool rows, n = 0 .. MaxRows
Tables == { SubSeq(RowPool, 1, n) : n \in 0 .. MaxRows }

BaseTable == SubSeq(RowPool, 1, 2)

\* metadata.objects: persisted formatting properties, object name -> property -> value
NoObjects == [ o \in { } |-> << >> ]

CustomObjects ==
    [ dualKpiProperties |->
        [ titleText |-> "Revenue",
          errorTooltipText |-> "Check the feed",
          warningTooltipText |-> "Check the feed",
          showStaleDataWarning |-> FALSE ],
      dualKpiAxis |->
        [ topChartZeroLine |-> TRUE,
          topChartAxisMin |-> 0 ] ]

ObjectsSet == { NoObjects, CustomObjects }

\* options.dataViews[0]
NoDataView ==
    [ kind |-> "undefined", cols |-> << >>, hasTable |-> FALSE, rows |-> << >>,
      objects |-> NoObjects ]

NoMetadata == [ NoDataView EXCEPT !.kind = "no-metadata" ]

NoColumns == [ NoDataView EXCEPT !.kind = "no-columns" ]

Bound(cols, hasTable, rows, objects) ==
    [ kind |-> "bound", cols |-> cols, hasTable |-> hasTable, rows |-> rows,
      objects |-> objects ]

UnboundDataViews == { NoDataView, NoMetadata, NoColumns }

BaseDataView == Bound(LayoutWarningLast, TRUE, BaseTable, NoObjects)

BoundDataViews ==
    { Bound(l, TRUE, t, NoObjects) : l \in Layouts, t \in Tables }
    \cup { Bound(LayoutNoWarning, FALSE, << >>, NoObjects),
           Bound(LayoutWarningLast, TRUE, BaseTable, CustomObjects),
           Bound(LayoutWarningLast, TRUE, OldTable, NoObjects),
           Bound(LayoutPercentDates, TRUE, BaseTable, NoObjects) }

\* this.dataView && this.dataView.metadata && this.dataView.metadata.columns
HasColumns(dv) == dv.kind = "bound"

\* the rows the converter iterates: dataView.table.rows, or [] without a table
RowsOf(dv) == IF dv.hasTable THEN dv.rows ELSE << >>

\* options.viewport: heights on both sides of every size-class threshold
Heights == { 50, SmallHeight - 1, SmallHeight, MediumHeight - 1, MediumHeight,
             LargeHeight - 1, LargeHeight }

Widths == { 100, 300 }

BaseViewport == [ width |-> 300, height |-> MediumHeight ]

Viewports ==
    { [ width |-> BaseViewport.width, height |-> h ] : h \in Heights }
    \cup { [ width |-> w, height |-> BaseViewport.height ] : w \in Widths }

\* new Date() at the time of the update
Nows == { 9, 12 }

BaseNow == SetMax(Nows)

\* The update calls of specification Spec: every data view, at the base
\* viewport and clock.
UpdateInputs ==
    { [ dv |-> dv, vp |-> BaseViewport, now |-> BaseNow ] :
        dv \in UnboundDataViews \cup BoundDataViews }

\* The update calls of specification SpecAxis: one table at a large viewport,
\* with every combination of configured axis bounds and zero-line flags.
AxisTable ==
    << [ d |-> 4, t |-> 10, b |-> 3, w |-> 0, p |-> 4 ],
       [ d |-> 8, t |-> 20, b |-> 7, w |-> 0, p |-> 4 ] >>

\* a configured axis bound: none, one below the series, one inside its range
AxisBoundSettings == { Null, Some(0), Some(15) }

\* metadata.objects with the axis group: both panels get the bounds min and
\* max (where configured); the top panel's zero-line flag is zero, the bottom
\* panel's its negation
AxisObjects(min, max, zero) ==
    LET names == { "topChartZeroLine", "bottomChartZeroLine" }
                   \cup (IF IsNull(min) THEN { }
                         ELSE { "topChartAxisMin", "bottomChartAxisMin" })
                   \cup (IF IsNull(max) THEN { }
                         ELSE { "topChartAxisMax", "bottomChartAxisMax" })
    IN  [ dualKpiAxis |->
            [ n \in names |->
                IF n = "topChartZeroLine" THEN zero
                ELSE IF n = "bottomChartZeroLine" THEN ~zero
                ELSE IF n \in { "topChartAxisMin", "bottomChartAxisMin" } THEN min[1]
                ELSE max[1] ] ]

AxisViewport == [ width |-> 300, height |-> 500 ]

AxisInputs ==
    { [ dv |-> Bound(LayoutNoWarning, TRUE, AxisTable, AxisObjects(min, max, zero)),
        vp |-> AxisViewport, now |-> BaseNow ] :
        min \in AxisBoundSettings, max \in AxisBoundSettings, zero \in BOOLEAN }

\* The update calls of specification SpecHover: the three pool rows (dates 4,
\* 8, 11) with a bottom panel of amounts or of percentages, at a medium and at
\* a small viewport, and a table of one row.
HoverInputs ==
    { [ dv |-> Bound(l, TRUE, RowPool, NoObjects), vp |-> vp, now |-> BaseNow ] :
        l \in { LayoutNoWarning, LayoutWarningFirst },
        vp \in { BaseViewport, [ width |-> BaseViewport.width, height |-> SmallHeight ] } }
    \cup { [ dv |-> Bound(LayoutNoWarning, TRUE, SubSeq(RowPool, 1, 1), NoObjects),
             vp |-> BaseViewport, now |-> BaseNow ] }

\* The update calls of specification SpecLayout: the base data view at every
\* viewport and clock, and, at the base viewport, no data view and the two
\* empty tables on which an update stops early.
LayoutInputs ==
    { [ dv |-> BaseDataView, vp |-> vp, now |-> BaseNow ] : vp \in Viewports }
    \cup { [ dv |-> BaseDataView, vp |-> BaseViewport, now |-> n ] : n \in Nows }
    \cup { [ dv |-> dv, vp |-> BaseViewport, now |-> BaseNow ] :
              dv \in { NoDataView,
                       Bound(LayoutWarningFirst, TRUE, << >>, NoObjects),
                       Bound(LayoutWarningLast, TRUE, << >>, NoObjects) } }

\* pointer / touch events dispatched on the host element
MoveTypes == { "mousemove", "touchmove", "touchstart" }

OutTypes == { "mouseout", "touchleave" }

\* where the pointer / first touch point is: along a row over the panels,
\* and one point below both panels
ClientXs == { 10, 100, 240 }

ClientYs == { 50, 1000 }

Positions ==
    { [ x |-> x, y |-> SetMin(ClientYs) ] : x \in ClientXs }
    \cup { [ x |-> 100, y |-> SetMax(ClientYs) ] }

\* pointer positions of specification SpecHover: left of both margins, between
\* them, over the first and the second interval of dates, right of the last
\* date, and below the panels
HoverPositions ==
    { [ x |-> x, y |-> SetMin(ClientYs) ] : x \in { 10, 35, 100, 240, 320 } }
    \cup { [ x |-> 100, y |-> SetMax(ClientYs) ] }

----------------------------------------------------------------------------
(* Formatting-pane properties *)

\* DualKpi.defaultValues (null is Null); the warning text property is named
\* errorTooltipText in visual.ts and warningTooltipText in part_000.
defaultValues(v) ==
    [ titleText |-> "Title",
      abbreviateValues |-> FALSE,
      topChartToolTipText |-> "",
      bottomChartToolTipText |-> "",
      warningTooltipText |-> IF v = "rebuild" THEN "Error" ELSE "Warning message",
      showStaleDataWarning |-> TRUE,
      staleDataTooltipText |-> "",
      staleDataThreshold |-> DefaultStaleDataThreshold,
      topPercentCalcDate |-> Null,
      bottomPercentCalcDate |-> Null,
      dataColor |-> "#01b8aa",
      textColor |-> "#212121",
      opacity |-> 30,
      topChartAxisMin |-> Null,
      topChartAxisMax |-> Null,
      bottomChartAxisMin |-> Null,
      bottomChartAxisMax |-> Null,
      topChartZeroLine |-> FALSE,
      bottomChartZeroLine |-> FALSE,
      topChartType |-> "area",
      bottomChartType |-> "area" ]

\* the propertyName under which the warning text is persisted
WarningProperty(v) == IF v = "rebuild" THEN "errorTooltipText" ELSE "warningTooltipText"

\* DualKpi.getValue: the persisted value when the object and the property are
\* defined, the default otherwise
getValue(objects, objectName, propertyName, defaultValue) ==
    IF objectName \notin DOMAIN objects
    THEN defaultValue
    ELSE IF propertyName \notin DOMAIN objects[objectName]
         THEN defaultValue
         ELSE objects[objectName][propertyName]

\* the same for a property whose default is null: the result is nullable
getNullable(objects, objectName, propertyName) ==
    IF objectName \in DOMAIN objects /\ propertyName \in DOMAIN objects[objectName]
    THEN Some(objects[objectName][propertyName])
    ELSE Null

\* the formatting groups and the properties enumerateObjectInstances lists in each
ObjectNames == { "dualKpiProperties", "dualKpiColors", "dualKpiAxis", "dualKpiChart" }

PropertyNames(v, objectName) ==
    IF objectName = "dualKpiProperties"
    THEN { "titleText", "abbreviateValues", "topChartToolTipText", "bottomChartToolTipText",
           WarningProperty(v), "showStaleDataWarning", "staleDataTooltipText",
           "staleDataThreshold", "topPercentCalcDate", "bottomPercentCalcDate" }
    ELSE IF objectName = "dualKpiColors" THEN { "dataColor", "textColor", "opacity" }
    ELSE IF objectName = "dualKpiAxis"
    THEN { "topChartAxisMin", "topChartAxisMax", "bottomChartAxisMin", "bottomChartAxisMax",
           "topChartZeroLine", "bottomChartZeroLine" }
    ELSE { "topChartType", "bottomChartType" }

ObjectDisplayName(objectName) ==
    IF objectName = "dualKpiProperties" THEN "Dual KPI Properties"
    ELSE IF objectName = "dualKpiColors" THEN "Dual KPI Colors"
    ELSE IF objectName = "dualKpiAxis" THEN "Dual KPI Axis Settings"
    ELSE "Dual KPI Chart Types"

\* a JavaScript value a getter returns: undefined, or a defined value that is
\* null (Null) or not (Some of it)
Undefined == [ defined |-> FALSE, value |-> Null ]

Defined(nullable) == [ defined |-> TRUE, value |-> nullable ]

\* the default value a property's getter hands to getValue
DefaultOf(v, propertyName) ==
    LET def == defaultValues(v)
    IN  IF propertyName = WarningProperty(v) THEN Some(def.warningTooltipText)
        ELSE IF propertyName \in { "dataColor", "textColor" }
             THEN Some([ solid |-> [ color |-> def[propertyName] ] ])
        ELSE IF propertyName \in { "topPercentCalcDate", "bottomPercentCalcDate",
                                   "topChartAxisMin", "topChartAxisMax",
                                   "bottomChartAxisMin", "bottomChartAxisMax" }
             THEN def[propertyName]
        ELSE Some(def[propertyName])

\* DualKpi.getTitleText and its twenty siblings:
\* dataView && dataView.metadata && DualKpi.getValue(objects, property, default)
Getter(v, dv, objectName, propertyName) ==
    IF dv.kind \in { "undefined", "no-metadata" }
    THEN Undefined
    ELSE LET persisted == getNullable(dv.objects, objectName, propertyName)
         IN  Defined(IF IsNull(persisted) THEN DefaultOf(v, propertyName) ELSE persisted)

\* enumerateObjectInstances(options) on a widget whose dataView field is dv
enumerateObjectInstances(v, dv, objectName) ==
    IF objectName \in ObjectNames
    THEN << [ objectName |-> objectName,
              displayName |-> ObjectDisplayName(objectName),
              selector |-> Null,
              properties |-> [ n \in PropertyNames(v, objectName) |->
                                 Getter(v, dv, objectName, n) ] ] >>
    ELSE << >>

\* new Date(x): new Date(null) is the epoch
NewDate(x) == IF IsNull(x) THEN 0 ELSE x[1]

----------------------------------------------------------------------------
(* Pure helpers of the widget *)

\* getDaysBetween: Math.round(|date1 - date2| / oneDay), halves rounded up
getDaysBetween(date1, date2) == (2 * Abs(date1 - date2) + oneDay) \div (2 * oneDay)

\* a number that need not be whole: num / den, den > 0
Ratio(num, den) == [ num |-> num, den |-> den ]

\* Seeded fault for C13: the digits after the first decimal are cut off.
toFixedTruncating(r) ==
    LET tenths == (10 * Abs(r.num)) \div r.den
    IN  (IF r.num < 0 THEN "-" ELSE "")
            \o ToString(tenths \div 10) \o "." \o ToString(tenths % 10)

\* Number.prototype.toFixed(1): the sign, then the magnitude rounded to the
\* nearest tenth (the larger one when two are equally near)
toFixed1(r) ==
    LET tenths == (20 * Abs(r.num) + r.den) \div (2 * r.den)
    IN  (IF r.num < 0 THEN "-" ELSE "")
            \o ToString(tenths \div 10) \o "." \o ToString(tenths % 10)

\* percentFormatter(value, showPlusMinus)
percentFormatter(value, showPlusMinus) ==
    LET prefix == IF value.num >= 0 THEN "+" ELSE ""
        valueString == toFixed1(Ratio(value.num * 100, value.den)) \o "%"
    IN  IF showPlusMinus THEN prefix \o valueString ELSE valueString

\* three digits of a thousands group
Pad3(n) == (IF n < 10 THEN "00" ELSE IF n < 100 THEN "0" ELSE "") \o ToString(n)

\* commaNumberFormatter = d3.format(","), on integers below a million
commaNumberFormatter(n) ==
    LET a == Abs(n)
    IN  (IF n < 0 THEN "-" ELSE "")
            \o (IF a < 1000 THEN ToString(a)
                ELSE ToString(a \div 1000) \o "," \o Pad3(a % 1000))

\* valueFormatter = d3.format(".3s"): three significant digits with an SI
\* prefix, on integers below a million
valueFormatter(n) ==
    LET a == Abs(n)
        sign == IF n < 0 THEN "-" ELSE ""
        hundredths == (a + 5) \div 10
        tenths == (a + 50) \div 100
    IN  sign \o
        (IF a < 10 THEN ToString(a) \o ".00"
         ELSE IF a < 100 THEN ToString(a) \o ".0"
         ELSE IF a < 1000 THEN ToString(a)
         ELSE IF a < 10000
              THEN ToString(hundredths \div 100) \o "."
                       \o (IF hundredths % 100 < 10 THEN "0" ELSE "")
                       \o ToString(hundredths % 100) \o "k"
         ELSE IF a < 100000
              THEN ToString(tenths \div 10) \o "." \o ToString(tenths % 10) \o "k"
         ELSE ToString((a + 500) \div 1000) \o "k")

\* the text of the latest-value overlay (and of the hover readout's value)
formattedValue(latestValue, valueAsPercent, abbreviateValue) ==
    IF valueAsPercent
    THEN percentFormatter(Ratio(latestValue, 100), FALSE)
    ELSE IF abbreviateValue THEN valueFormatter(latestValue)
         ELSE commaNumberFormatter(latestValue)

\* Seeded fault for C12: a zero start value is formatted as no change.
getPercentChangeZeroAsNoChange(startValue, endValue) ==
    IF startValue = 0
    THEN percentFormatter(Ratio(0, 1), TRUE)
    ELSE percentFormatter(
             Ratio((IF endValue < startValue THEN 0 - 1 ELSE 1) * Abs(endValue - startValue),
                   Abs(startValue)),
             TRUE)

\* getPercentChange(startValue, endValue)
getPercentChange(startValue, endValue) ==
    IF startValue = 0
    THEN "n/a"
    ELSE LET diff == endValue - startValue
             percentChange == Ratio(Abs(diff), Abs(startValue))
         IN  percentFormatter(
                 IF endValue < startValue
                 THEN Ratio(percentChange.num * (0 - 1), percentChange.den)
                 ELSE percentChange,
                 TRUE)

FormatSymbols == { "$", "€", "£", "¥", "₩", "%" }

\* getFormatSymbol: the first character of the format string that is one of
\* the symbols, "undefined" when there is none
RECURSIVE FirstSymbol(_, _)
FirstSymbol(format, i) ==
    IF i > Len(format)
    THEN "undefined"
    ELSE IF format[i] \in FormatSymbols THEN format[i] ELSE FirstSymbol(format, i + 1)

getFormatSymbol(format) == FirstSymbol(format, 1)

\* Seeded fault for C15: a date equal to the reference date ends the loop
\* like a more recent one, without being taken.
ClosestIndexOlderOnly(chartData, percentCalcDateTime, i, closestIndex) ==
    LET older == { j \in 1 .. Len(chartData) :
                     \A k \in 1 .. j : chartData[k].date < percentCalcDateTime }
    IN  IF older = { } THEN 0 ELSE SetMax(older) - 1

\* getPercentChangeStartPoint's loop: closestIndex (0-based) after scanning from i
\* Seeded fault for C29: the point taken is the first one at or after the
\* reference date (the last point when there is none).
ClosestIndexFirstLater(chartData, percentCalcDateTime, i, closestIndex) ==
    LET later == { j \in 1 .. Len(chartData) : chartData[j].date >= percentCalcDateTime }
    IN  IF later # { } THEN SetMin(later) - 1
        ELSE IF Len(chartData) = 0 THEN 0 ELSE Len(chartData) - 1

RECURSIVE ClosestIndex(_, _, _, _)
ClosestIndex(chartData, percentCalcDateTime, i, closestIndex) ==
    IF i >= Len(chartData)
    THEN closestIndex
    ELSE LET currTime == chartData[i + 1].date
         IN  IF currTime = percentCalcDateTime
             THEN i
             ELSE IF currTime < percentCalcDateTime
                  THEN ClosestIndex(chartData, percentCalcDateTime, i + 1, i)
                  ELSE closestIndex

\* Seeded fault for C14: without a reference date the last point is returned.
getPercentChangeStartPointLast(chartData, percentCalcDate) ==
    IF Len(chartData) = 0
    THEN Null
    ELSE IF IsNull(percentCalcDate)
         THEN Some(chartData[Len(chartData)])
         ELSE Some(chartData[1])

\* getPercentChangeStartPoint: the point (undefined for an empty series)
getPercentChangeStartPoint(chartData, percentCalcDate) ==
    LET closestIndex ==
            IF IsNull(percentCalcDate)
            THEN 0
            ELSE ClosestIndex(chartData, percentCalcDate[1], 0, 0)
    IN  IF closestIndex < Len(chartData) THEN Some(chartData[closestIndex + 1]) ELSE Null

----------------------------------------------------------------------------
(* Data converter *)

\* the column loop of converter for one role: the index is overwritten on every
\* column that carries the role
\* Seeded fault for C19: the first column carrying the role is kept.
RoleColumnFirstMatch(metadataColumns, role, i, found) ==
    LET carrying == { j \in 1 .. Len(metadataColumns) : role \in metadataColumns[j].roles }
    IN  IF carrying = { } THEN found ELSE SetMin(carrying) - 1

\* the converter's loop over metadata.columns for one role: the index left in
\* the role's variable after columns i .. length-1, found being its value before
RECURSIVE RoleColumn(_, _, _, _)
RoleColumn(metadataColumns, role, i, found) ==
    IF i >= Len(metadataColumns)
    THEN found
    ELSE RoleColumn(metadataColumns, role, i + 1,
                    IF role \in metadataColumns[i + 1].roles THEN i ELSE found)

\* rows[i][col], i and col 0-based
Cell(dv, i, col) == RowsOf(dv)[i + 1][dv.cols[col + 1].src]

\* the guard of converter's last statement: visual.ts tests the truthiness of
\* warningStateCol, part_000 tests warningStateCol > -1
ReadsWarningState(v, warningStateCol) ==
    IF v = "rebuild" THEN warningStateCol # 0 ELSE warningStateCol > -1

\* one series of the row loop
SeriesOf(dv, now, axisCol, valuesCol, valueAsPercent) ==
    [ i \in 1 .. Len(RowsOf(dv)) |->
        [ date  |-> IF axisCol > -1 THEN Cell(dv, i - 1, axisCol) ELSE now,
          value |-> LET raw == IF valuesCol > -1 THEN Cell(dv, i - 1, valuesCol) ELSE 0
                    IN  IF valueAsPercent THEN raw * 100 ELSE raw ] ]

\* converter: threw when rows[rows.length - 1] is read on an empty table and
\* dereferenced; data is the IDualKpiData otherwise
converter(v, dv, now) ==
    LET cols == dv.cols
        rows == RowsOf(dv)
        obj == dv.objects
        def == defaultValues(v)
        axisCol == RoleColumn(cols, "axis", 0, -1)
        topValuesCol == RoleColumn(cols, "topvalues", 0, -1)
        bottomValuesCol == RoleColumn(cols, "bottomvalues", 0, -1)
        warningStateCol == RoleColumn(cols, "warningstate", 0, -1)
        topPercentDateCol == RoleColumn(cols, "toppercentdate", 0, -1)
        bottomPercentDateCol == RoleColumn(cols, "bottompercentdate", 0, -1)
        topValueFormatSymbol ==
            IF topValuesCol > -1 THEN getFormatSymbol(cols[topValuesCol + 1].format) ELSE ""
        bottomValueFormatSymbol ==
            IF bottomValuesCol > -1 THEN getFormatSymbol(cols[bottomValuesCol + 1].format) ELSE ""
        topValueAsPercent == topValueFormatSymbol = "%"
        bottomValueAsPercent == bottomValueFormatSymbol = "%"
        P(name) == getValue(obj, "dualKpiProperties", name, def[name])
        A(name) == getValue(obj, "dualKpiAxis", name, def[name])
        C(name) == getValue(obj, "dualKpiChart", name, def[name])
    IN  [ threw |-> ReadsWarningState(v, warningStateCol) /\ Len(rows) = 0,
          data |->
            [ topChartName |-> IF topValuesCol > -1 THEN cols[topValuesCol + 1].displayName ELSE "",
              bottomChartName |->
                  IF bottomValuesCol > -1 THEN cols[bottomValuesCol + 1].displayName ELSE "",
              topValues |-> SeriesOf(dv, now, axisCol, topValuesCol, topValueAsPercent),
              bottomValues |-> SeriesOf(dv, now, axisCol, bottomValuesCol, bottomValueAsPercent),
              topValueAsPercent |-> topValueAsPercent,
              bottomValueAsPercent |-> bottomValueAsPercent,
              warningState |->
                  IF ReadsWarningState(v, warningStateCol) /\ Len(rows) > 0
                  THEN IF warningStateCol > -1
                       THEN Some(Cell(dv, Len(rows) - 1, warningStateCol))
                       ELSE Null
                  ELSE Some(0),
              title |-> P("titleText"),
              abbreviateValues |-> P("abbreviateValues"),
              topChartToolTipText |-> P("topChartToolTipText"),
              bottomChartToolTipText |-> P("bottomChartToolTipText"),
              warningTooltipText |->
                  getValue(obj, "dualKpiProperties", WarningProperty(v), def.warningTooltipText),
              showStaleDataWarning |-> P("showStaleDataWarning"),
              staleDataTooltipText |-> P("staleDataTooltipText"),
              staleDataThreshold |-> P("staleDataThreshold"),
              topPercentCalcDate |->
                  IF topPercentDateCol > -1 /\ Len(rows) > 0
                  THEN Cell(dv, 0, topPercentDateCol)
                  ELSE NewDate(getNullable(obj, "dualKpiProperties", "topPercentCalcDate")),
              bottomPercentCalcDate |->
                  IF bottomPercentDateCol > -1 /\ Len(rows) > 0
                  THEN Cell(dv, 0, bottomPercentDateCol)
                  ELSE NewDate(getNullable(obj, "dualKpiProperties", "bottomPercentCalcDate")),
              topChartAxisMin |-> getNullable(obj, "dualKpiAxis", "topChartAxisMin"),
              topChartAxisMax |-> getNullable(obj, "dualKpiAxis", "topChartAxisMax"),
              bottomChartAxisMin |-> getNullable(obj, "dualKpiAxis", "bottomChartAxisMin"),
              bottomChartAxisMax |-> getNullable(obj, "dualKpiAxis", "bottomChartAxisMax"),
              topChartZeroLine |-> A("topChartZeroLine"),
              bottomChartZeroLine |-> A("bottomChartZeroLine"),
              topChartType |-> C("topChartType"),
              bottomChartType |-> C("bottomChartType") ] ]

----------------------------------------------------------------------------
(* The element tree *)

\* Identity of an element that closures keep a reference to: the reuse variant
\* creates its groups once (node 0); the rebuild variant creates new ones in
\* every update (node = number of that update); NoNode is an empty selection.
NoNode == -1

\* A chart group and what hangs under it.
\*   intact        the child elements created with the group are still in it
\*   area          datum of the series path (empty: no geometry)
\*   zeroLine      a path with the zero line's geometry is displayed
\*   ticks         tick values of the Y axis rendered in the group
\*   zeroAxisClass an element of the group carries class "zero-axis"
\*   titleClass    the overlay texts carry classes "title" / "data"
\*   overlay       what the overlay title / value texts were computed from
\*   tooltips      the <title> children of the overlay rectangle
\*   hoverLineHidden, hover   the hover indicator line and the hover readout
EmptyPanel(node, fresh) ==
    [ node |-> node, intact |-> fresh, area |-> << >>, chartType |-> "",
      zeroLine |-> FALSE, ticks |-> << >>, zeroAxisClass |-> fresh,
      titleClass |-> fresh, overlay |-> Null, tooltips |-> << >>,
      hoverLineHidden |-> FALSE, translate |-> Null,
      hover |-> [ invisible |-> TRUE, readout |-> Null ] ]

\* The footer group (this.bottomContainer).
EmptyFooter(node, fresh) ==
    [ node |-> node, intact |-> fresh, invisible |-> TRUE, hidden |-> FALSE,
      title |-> Null, titleShifted |-> FALSE, warningIcon |-> FALSE,
      warningTitle |-> Null, infoIcons |-> << >>, infoMessages |-> << >>,
      dateRanges |-> << >> ]

ChartGroupOf(p) == IF p = "top" THEN "chartGroup:top" ELSE "chartGroup:bottom"

HoverContainerOf(p) ==
    IF p = "top" THEN "hover-data-container:top" ELSE "hover-data-container:bottom"

FooterGroup == "bottom-title-container"

\* the widget state the operations below transform
Widget ==
    [ dataView |-> dataView, data |-> data, size |-> size,
      sizeCssClass |-> sizeCssClass, viewport |-> viewport, svgAttrs |-> svgAttrs,
      svgChildren |-> svgChildren, panels |-> panels, footer |-> footer,
      closures |-> closures, listeners |-> listeners ]

\* A function object created by the widget and handed to addEventListener:
\* which function it is, the panel and the elements (node) it refers to, the
\* update that created it (0: the constructor) and, for the mousemove closure,
\* the data and scales it captured.
Closure(fn, p, node, gen, env) ==
    [ fn |-> fn, panel |-> p, node |-> node, by |-> gen, env |-> env ]

\* One addEventListener registration; closure indexes the closures created so far.
Listener(type, capture, closure) ==
    [ type |-> type, capture |-> capture, closure |-> closure ]

\* initMouseEvents (reuse variant): one mouseout closure per panel, registered
\* for mouseout and touchleave
initMouseEvents(W) ==
    LET k == Len(W.closures)
    IN  [ W EXCEPT
            !.closures = @ \o << Closure("mouseout", "top", 0, 0, Null),
                                 Closure("mouseout", "bottom", 0, 0, Null) >>,
            !.listeners = @ \o << Listener("mouseout", TRUE, k + 1),
                                  Listener("touchleave", TRUE, k + 1),
                                  Listener("mouseout", TRUE, k + 2),
                                  Listener("touchleave", TRUE, k + 2) >> ]

\* the widget after its constructor
\*   rebuild: an empty svg, no listeners
\*   reuse:   initContainer has created both chart groups and the footer
NewWidget(v) ==
    LET W == [ dataView |-> NoDataView,
               data |-> Null,
               size |-> "small",
               sizeCssClass |-> "small",
               viewport |-> Null,
               svgAttrs |-> [ width |-> Null, height |-> Null ],
               svgChildren |-> << >>,
               panels |-> [ p \in PanelNames |-> EmptyPanel(NoNode, FALSE) ],
               footer |-> EmptyFooter(NoNode, FALSE),
               closures |-> << >>,
               listeners |-> << >> ]
    IN  IF v = "rebuild"
        THEN W
        ELSE initMouseEvents(
                 [ W EXCEPT
                     !.svgChildren =
                         << ChartGroupOf("top"), ChartGroupOf("bottom"), FooterGroup >>,
                     !.panels = [ p \in PanelNames |-> EmptyPanel(0, TRUE) ],
                     !.footer = EmptyFooter(0, TRUE) ])

\* svgRoot.selectAll("*").remove(): every descendant of the svg is taken out of
\* its parent; groups that the widget or a closure still references are left
\* empty and detached (class attributes stay on the detached elements)
RemovedPanel(q) ==
    [ EmptyPanel(q.node, FALSE) EXCEPT
        !.hoverLineHidden = q.hoverLineHidden,
        !.hover = [ invisible |-> q.hover.invisible, readout |-> Null ] ]

RemovedFooter(f) ==
    [ EmptyFooter(f.node, FALSE) EXCEPT !.invisible = f.invisible, !.hidden = f.hidden ]

\* Seeded fault for C1: a clear that takes out the chart groups only and
\* leaves the footer group under the svg.
clearChartsOnly(W) ==
    [ W EXCEPT
        !.svgChildren = SelectSeq(@, LAMBDA c : c = FooterGroup),
        !.panels = [ p \in PanelNames |-> RemovedPanel(W.panels[p]) ] ]

clear(W) ==
    [ W EXCEPT
        !.svgChildren = << >>,
        !.panels = [ p \in PanelNames |-> RemovedPanel(W.panels[p]) ],
        !.footer = RemovedFooter(W.footer) ]

\* destroy() (visual.ts): the svg is emptied and the two fields are nulled;
\* nothing is taken off the host element
destroy(W) ==
    [ clear(W) EXCEPT !.data = Null, !.dataView = [ NoDataView EXCEPT !.kind = "null" ] ]

----------------------------------------------------------------------------
(* Layout *)

\* Seeded fault for C10: the thresholds compared with > instead of >=.
SizeClassStrict(availableHeight) ==
    IF availableHeight > LargeHeight
    THEN [ size |-> "large", sizeCssClass |-> "large", iconOffset |-> -1,
           chartSpaceBetween |-> 25, chartTitleSpace |-> 46 ]
    ELSE IF availableHeight > MediumHeight
    THEN [ size |-> "medium", sizeCssClass |-> "medium", iconOffset |-> -8,
           chartSpaceBetween |-> 20, chartTitleSpace |-> 30 ]
    ELSE IF availableHeight > SmallHeight
    THEN [ size |-> "small", sizeCssClass |-> "small", iconOffset |-> -6,
           chartSpaceBetween |-> 15, chartTitleSpace |-> 22 ]
    ELSE [ size |-> "extrasmall", sizeCssClass |-> "extra-small", iconOffset |-> -8,
           chartSpaceBetween |-> 6, chartTitleSpace |-> 18 ]

\* update: the size class and its spacing constants, by the clamped height
SizeClass(availableHeight) ==
    IF availableHeight >= LargeHeight
    THEN [ size |-> "large", sizeCssClass |-> "large", iconOffset |-> -1,
           chartSpaceBetween |-> 25, chartTitleSpace |-> 46 ]
    ELSE IF availableHeight >= MediumHeight
    THEN [ size |-> "medium", sizeCssClass |-> "medium", iconOffset |-> -8,
           chartSpaceBetween |-> 20, chartTitleSpace |-> 30 ]
    ELSE IF availableHeight >= SmallHeight
    THEN [ size |-> "small", sizeCssClass |-> "small", iconOffset |-> -6,
           chartSpaceBetween |-> 15, chartTitleSpace |-> 22 ]
    ELSE [ size |-> "extrasmall", sizeCssClass |-> "extra-small", iconOffset |-> -8,
           chartSpaceBetween |-> 6, chartTitleSpace |-> 18 ]

AvailableHeight(vp) == IF vp.height < MinHeight THEN MinHeight ELSE vp.height

AvailableWidth(vp) == IF vp.width < MinWidth THEN MinWidth ELSE vp.width

\* drawChart: margin.left for the current size class
LeftMargin(sz) == IF sz \in { "medium", "large" } THEN WideLeftMargin ELSE chartLeftMargin

\* Seeded fault for C11: the viewport is remembered and no attribute is written.
updateViewportRememberOnly(W, vp) ==
    [ W EXCEPT !.viewport = Some(vp) ]

\* updateViewport (reuse variant): the attributes are written only when the
\* viewport differs from the remembered one
updateViewport(W, vp) ==
    [ W EXCEPT
        !.svgAttrs = IF IsNull(W.viewport) \/ W.viewport[1].width # vp.width
                        \/ W.viewport[1].height # vp.height
                     THEN [ width |-> Some(vp.width), height |-> Some(vp.height) ]
                     ELSE @,
        !.viewport = Some(vp) ]

----------------------------------------------------------------------------
(* drawChart *)

\* the arguments update passes to drawChart for panel p; heights are doubled
ChartOptions(d, p, chartWidth, chartHeight2, chartSpaceBetween) ==
    IF p = "top"
    THEN [ chartData |-> d.topValues, chartTitle |-> d.topChartName,
           valueAsPercent |-> d.topValueAsPercent, tooltipText |-> d.topChartToolTipText,
           axisConfig |-> [ min |-> d.topChartAxisMin, max |-> d.topChartAxisMax ],
           percentChangeStartPoint |->
               getPercentChangeStartPoint(d.topValues, Some(d.topPercentCalcDate)),
           abbreviateValue |-> d.abbreviateValues, chartType |-> d.topChartType,
           showZeroLine |-> d.topChartZeroLine,
           top2 |-> 0, width |-> chartWidth, height2 |-> chartHeight2 ]
    ELSE [ chartData |-> d.bottomValues, chartTitle |-> d.bottomChartName,
           valueAsPercent |-> d.bottomValueAsPercent, tooltipText |-> d.bottomChartToolTipText,
           axisConfig |-> [ min |-> d.bottomChartAxisMin, max |-> d.bottomChartAxisMax ],
           percentChangeStartPoint |->
               getPercentChangeStartPoint(d.bottomValues, Some(d.bottomPercentCalcDate)),
           abbreviateValue |-> d.abbreviateValues, chartType |-> d.bottomChartType,
           showZeroLine |-> d.bottomChartZeroLine,
           top2 |-> chartHeight2 + 2 * chartSpaceBetween,
           width |-> chartWidth, height2 |-> chartHeight2 ]

\* what the mousemove closure of one drawChart call captures
\* the chart group's transform: translate(margin.left, top + margin.top),
\* the vertical offset doubled like the heights
ChartTranslate(o, marginLeft) == << marginLeft, o.top2 + 2 * MarginTop >>

HoverEnv(o, marginLeft) ==
    LET chartData == o.chartData
        dates == { chartData[i].date : i \in 1 .. Len(chartData) }
    IN  [ chartData |-> chartData,
          width |-> o.width,
          height2 |-> o.height2,
          marginLeft |-> marginLeft,
          calcWidth |-> o.width - marginLeft,
          domain |-> << SetMin(dates), SetMax(dates) >>,
          latestValue |-> chartData[Len(chartData)].value,
          valueAsPercent |-> o.valueAsPercent,
          abbreviateValue |-> o.abbreviateValue ]

\* this.target.addEventListener for mousemove, touchmove and touchstart, all
\* three with closure k
MoveListeners(k) ==
    << Listener("mousemove", FALSE, k), Listener("touchmove", FALSE, k),
       Listener("touchstart", FALSE, k) >>

\* this.target.addEventListener for mouseout and touchleave (visual.ts drawChart)
OutListeners(k) ==
    << Listener("mouseout", TRUE, k), Listener("touchleave", TRUE, k) >>

\* Seeded fault for C22: the observed range is used only when neither bound
\* is configured; a bound left open next to a configured one repeats it.
AxisTicksTogether(o) ==
    LET values == { o.chartData[i].value : i \in 1 .. Len(o.chartData) }
        min == o.axisConfig.min
        max == o.axisConfig.max
    IN  IF IsNull(min) /\ IsNull(max)
        THEN << SetMin(values), SetMax(values) >>
        ELSE << IF IsNull(min) THEN max[1] ELSE min[1],
                IF IsNull(max) THEN min[1] ELSE max[1] >>

\* the Y axis' two tick values
AxisTicks(o) ==
    LET values == { o.chartData[i].value : i \in 1 .. Len(o.chartData) }
        axisMinValue == IF IsNull(o.axisConfig.min) THEN SetMin(values) ELSE o.axisConfig.min[1]
        axisMaxValue == IF IsNull(o.axisConfig.max) THEN SetMax(values) ELSE o.axisConfig.max[1]
    IN  << axisMinValue, axisMaxValue >>

\* what the overlay texts and the overlay tooltip are computed from
OverlayOf(o) ==
    [ chartTitle |-> o.chartTitle,
      start |-> o.percentChangeStartPoint[1],
      latestValue |-> o.chartData[Len(o.chartData)].value,
      valueAsPercent |-> o.valueAsPercent,
      abbreviateValue |-> o.abbreviateValue ]

\* the text of the overlay's data-value element
DataValueText(ov) == formattedValue(ov.latestValue, ov.valueAsPercent, ov.abbreviateValue)

\* timeFormatter = d3.time.format("%m/%d/%y"): the calendar day of a date; two
\* instants of one day format alike
timeFormatter(date) == "day " \o ToString(date \div oneDay)

\* the overlay's change figure: the formatted change from the reference point
\* to the latest value, or, for a panel of percentages, their difference
PercentChangeText(o) ==
    LET start == o.percentChangeStartPoint[1].value
        latest == o.chartData[Len(o.chartData)].value
    IN  IF o.valueAsPercent
        THEN percentFormatter(Ratio(latest - start, 100), TRUE)
        ELSE getPercentChange(start, latest)

\* a <title> appended to the overlay rectangle
TooltipOf(o) ==
    [ tooltipText |-> o.tooltipText, start |-> o.percentChangeStartPoint[1],
      percentChange |-> PercentChangeText(o) ]

\* overlayTooltipText: the text of such a title
OverlayTooltipText(t) ==
    t.tooltipText \o " " \o t.percentChange \o " change since "
        \o timeFormatter(t.start.date)

\* drawChart for a non-empty series, generation gen = number of this update.
\* rebuild: a new chart group and a new hover container are appended to the
\*   svg; five listeners are added.
\* reuse: the elements are looked up by class in the persistent group and
\*   updated; ".zero-axis" is selected for the zero line and again for the
\*   axis, whose class attribute is then overwritten with "axis"; the overlay
\*   texts are selected as "text.title" / "text.data" and their class is
\*   overwritten with "data-title" / "data-value"; a <title> is appended to the
\*   overlay rectangle; three listeners are added.
drawChart(W, v, gen, p, o) ==
    LET q == W.panels[p]
        env == HoverEnv(o, LeftMargin(W.size))
        k == Len(W.closures)
    IN  IF v = "rebuild"
        THEN [ W EXCEPT
                 !.svgChildren = @ \o << ChartGroupOf(p), HoverContainerOf(p) >>,
                 !.panels[p] =
                     [ node |-> gen, intact |-> TRUE, area |-> o.chartData,
                       chartType |-> o.chartType, zeroLine |-> o.showZeroLine,
                       ticks |-> AxisTicks(o), zeroAxisClass |-> o.showZeroLine,
                       titleClass |-> FALSE, overlay |-> Some(OverlayOf(o)),
                       tooltips |-> << TooltipOf(o) >>, hoverLineHidden |-> TRUE,
                       translate |-> Some(ChartTranslate(o, LeftMargin(W.size))),
                       hover |-> [ invisible |-> TRUE, readout |-> Null ] ],
                 !.closures = @ \o << Closure("mousemove", p, gen, gen, Some(env)),
                                      Closure("mouseout", p, gen, gen, Null) >>,
                 !.listeners = @ \o MoveListeners(k + 1) \o OutListeners(k + 2) ]
        ELSE [ W EXCEPT
                 !.panels[p] =
                     IF q.intact
                     THEN [ q EXCEPT
                              !.area = o.chartData,
                              !.chartType = o.chartType,
                              !.zeroLine = IF q.zeroAxisClass THEN o.showZeroLine ELSE @,
                              !.ticks = IF q.zeroAxisClass THEN AxisTicks(o) ELSE @,
                              !.zeroAxisClass = FALSE,
                              !.overlay = IF q.titleClass THEN Some(OverlayOf(o)) ELSE @,
                              !.titleClass = FALSE,
                              !.tooltips = Append(@, TooltipOf(o)),
                              !.hoverLineHidden = TRUE,
                              !.translate = Some(ChartTranslate(o, LeftMargin(W.size))),
                              !.hover.readout = Null ]
                     ELSE q,
                 !.closures =
                     Append(@, Closure("mousemove", p, IF q.intact THEN q.node ELSE NoNode,
                                       gen, Some(env))),
                 !.listeners = @ \o MoveListeners(k + 1) ]

----------------------------------------------------------------------------
(* drawBottomContainer *)

\* this.data.warningState < 0 (undefined < 0 is false)
WarningNegative(d) == ~IsNull(d.warningState) /\ d.warningState[1] < 0

\* the info icon's day count: empty when no icon is added
StaleInfo(d, now) ==
    LET dataDaysOld == getDaysBetween(d.topValues[Len(d.topValues)].date, now)
    IN  IF dataDaysOld >= d.staleDataThreshold /\ d.showStaleDataWarning
        THEN << dataDaysOld >>
        ELSE << >>

\* the text of an info icon's title for a day count
InfoMessage(d, dataDaysOld) ==
    "Data is " \o ToString(dataDaysOld) \o " days old. " \o d.staleDataTooltipText

\* the titles of the info icons an update adds
StaleMessages(d, now) ==
    [ i \in 1 .. Len(StaleInfo(d, now)) |-> InfoMessage(d, StaleInfo(d, now)[i]) ]

DayRange(d) == getDaysBetween(d.topValues[1].date, d.topValues[Len(d.topValues)].date)

\* rebuild: a new footer group is appended to the svg; the warning icon is
\*   appended when the warning state is negative (the function is reached
\*   only with a non-empty top series: drawChart throws before it otherwise).
\* reuse: the persistent footer is updated: the warning icon's geometry and
\*   title are set when the warning state is negative and left alone
\*   otherwise; an info group and a date-range text are appended on every call
\*   with a non-empty top series.
drawBottomContainer(W, v, gen, now) ==
    LET d == W.data[1]
        f == W.footer
        some == Len(d.topValues) > 0
    IN  IF v = "rebuild"
        THEN [ W EXCEPT
                 !.svgChildren = Append(@, FooterGroup),
                 !.footer =
                     [ node |-> gen, intact |-> TRUE, invisible |-> FALSE, hidden |-> FALSE,
                       title |-> Some(d.title),
                       titleShifted |-> WarningNegative(d),
                       warningIcon |-> WarningNegative(d),
                       warningTitle |->
                           IF WarningNegative(d) THEN Some(d.warningTooltipText) ELSE Null,
                       infoIcons |-> IF some THEN StaleInfo(d, now) ELSE << >>,
                       infoMessages |-> IF some THEN StaleMessages(d, now) ELSE << >>,
                       dateRanges |-> IF some THEN << DayRange(d) >> ELSE << >> ] ]
        ELSE [ W EXCEPT
                 !.footer =
                     [ f EXCEPT
                         !.title = IF f.intact THEN Some(d.title) ELSE @,
                         !.titleShifted = IF f.intact /\ WarningNegative(d) THEN TRUE ELSE @,
                         !.warningIcon = IF f.intact /\ WarningNegative(d) THEN TRUE ELSE @,
                         !.warningTitle =
                             IF f.intact /\ WarningNegative(d)
                             THEN Some(d.warningTooltipText)
                             ELSE @,
                         !.infoIcons = IF some THEN @ \o StaleInfo(d, now) ELSE @,
                         !.infoMessages = IF some THEN @ \o StaleMessages(d, now) ELSE @,
                         !.dateRanges = IF some THEN Append(@, DayRange(d)) ELSE @,
                         !.invisible = FALSE ] ]

----------------------------------------------------------------------------
(* update *)

\* what update draws from: clamped viewport, size class, doubled panel height
\* Seeded fault for C26: the title space is not taken off the height the two
\* panels share.
LayoutWithoutTitleSpace(vp) ==
    LET availableHeight == AvailableHeight(vp)
        sc == SizeClass(availableHeight)
    IN  [ availableHeight |-> availableHeight,
          availableWidth |-> AvailableWidth(vp),
          sc |-> sc,
          chartHeight2 |-> availableHeight - sc.chartSpaceBetween ]

Layout(vp) ==
    LET availableHeight == AvailableHeight(vp)
        sc == SizeClass(availableHeight)
    IN  [ availableHeight |-> availableHeight,
          availableWidth |-> AvailableWidth(vp),
          sc |-> sc,
          chartHeight2 |-> availableHeight - (sc.chartSpaceBetween + sc.chartTitleSpace) ]

\* visual.ts update: the svg is emptied first; with columns, the converter runs
\* (it may throw), the size class and the svg's size are set, both charts and
\* the footer are drawn; drawChart throws on an empty series (chartData[-1].value)
updateRebuild(W, gen, in) ==
    LET W0 == [ clear(W) EXCEPT !.dataView = in.dv ]
        c == converter("rebuild", in.dv, in.now)
        l == Layout(in.vp)
        W1 == [ W0 EXCEPT
                  !.data = Some(c.data),
                  !.size = l.sc.size,
                  !.sizeCssClass = l.sc.sizeCssClass,
                  !.svgAttrs = [ width |-> Some(l.availableWidth),
                                 height |-> Some(l.availableHeight) ] ]
        O(p) == ChartOptions(c.data, p, l.availableWidth, l.chartHeight2,
                             l.sc.chartSpaceBetween)
        W2 == drawChart(W1, "rebuild", gen, "top", O("top"))
        W3 == drawChart(W2, "rebuild", gen, "bottom", O("bottom"))
    IN  IF ~HasColumns(in.dv)
        THEN [ w |-> W0, outcome |-> "cleared" ]
        ELSE IF c.threw
        THEN [ w |-> W0, outcome |-> "converter threw" ]
        ELSE IF Len(c.data.topValues) = 0
        THEN [ w |-> W1, outcome |-> "drawChart threw" ]
        ELSE [ w |-> drawBottomContainer(W3, "rebuild", gen, in.now), outcome |-> "rendered" ]

\* part_000 update: without columns the svg is cleared; otherwise the converter
\* runs (it may throw), the size class and viewport are set, each chart is
\* drawn when its series is not empty, and the footer is drawn
updateReuse(W, gen, in) ==
    LET W0 == [ W EXCEPT !.dataView = in.dv ]
        c == converter("reuse", in.dv, in.now)
        l == Layout(in.vp)
        W1 == updateViewport(
                  [ W0 EXCEPT
                      !.data = Some(c.data),
                      !.size = l.sc.size,
                      !.sizeCssClass = l.sc.sizeCssClass ],
                  [ width |-> l.availableWidth, height |-> l.availableHeight ])
        O(p) == ChartOptions(c.data, p, l.availableWidth, l.chartHeight2,
                             l.sc.chartSpaceBetween)
        W2 == IF Len(c.data.topValues) > 0
              THEN drawChart(W1, "reuse", gen, "top", O("top"))
              ELSE W1
        W3 == IF Len(c.data.bottomValues) > 0
              THEN drawChart(W2, "reuse", gen, "bottom", O("bottom"))
              ELSE W2
    IN  IF ~HasColumns(in.dv)
        THEN [ w |-> clear(W0), outcome |-> "cleared" ]
        ELSE IF c.threw
        THEN [ w |-> W0, outcome |-> "converter threw" ]
        ELSE [ w |-> drawBottomContainer(W3, "reuse", gen, in.now), outcome |-> "rendered" ]

update(W, v, gen, in) ==
    IF v = "rebuild" THEN updateRebuild(W, gen, in) ELSE updateReuse(W, gen, in)

Threw(outcome) == outcome \in { "converter threw", "drawChart threw" }

----------------------------------------------------------------------------
(* Pointer and touch handlers *)

\* whether a date lies before xScale.invert(leftPosition): the linear time scale
\* maps domain onto [0, calcWidth]; compared without dividing (Date's truncation
\* to whole milliseconds is below the model's time resolution)
BeforeCursor(env, date, leftPosition) ==
    (date - env.domain[1]) * env.calcWidth < leftPosition * (env.domain[2] - env.domain[1])

\* this.dataBisector(chartData, x, lo): d3.bisector(d => d.date).left
RECURSIVE dataBisector(_, _, _, _)
dataBisector(env, leftPosition, lo, hi) ==
    IF lo < hi
    THEN LET mid == (lo + hi) \div 2
         IN  IF BeforeCursor(env, env.chartData[mid + 1].date, leftPosition)
             THEN dataBisector(env, leftPosition, mid + 1, hi)
             ELSE dataBisector(env, leftPosition, lo, mid)
    ELSE lo

\* the position the closure compares with the bounds: clientX less margin.left,
\* or, for touch events, touches[0].clientX less this.chartLeftMargin
LeftPosition(env, e) ==
    IF e.type \in { "touchmove", "touchstart" }
    THEN e.x - chartLeftMargin
    ELSE e.x - env.marginLeft

InBounds(env, e) ==
    LET leftPosition == LeftPosition(env, e)
    IN  leftPosition > 0 /\ leftPosition < env.width /\ e.y < env.height2 + HoverSlack

\* the closure's elements are the ones the panel record describes
Targets(W, l) == l.node # NoNode /\ l.node = W.panels[l.panel].node

\* showHoverData: the three texts are set (when the container still holds
\* them), the footer gets class "hidden", the container loses "invisible"
showHoverData(W, l, dataPoint) ==
    LET q == W.panels[l.panel]
        env == l.env[1]
        readout == [ dataPoint |-> dataPoint, latestValue |-> env.latestValue,
                     valueAsPercent |-> env.valueAsPercent,
                     abbreviateValue |-> env.abbreviateValue, by |-> l.by ]
    IN  [ W EXCEPT
            !.panels[l.panel].hover =
                IF Targets(W, l)
                THEN [ invisible |-> FALSE,
                       readout |-> IF q.intact THEN Some(readout) ELSE q.hover.readout ]
                ELSE @,
            !.footer.hidden = TRUE ]

\* the text showHoverData gives the readout's ".percent" element: visual.ts
\* always formats the relative change, part_000 formats the point difference
\* for a panel of percentages (without asking for the sign prefix)
HoverPercentText(v, readout) ==
    LET value == readout.dataPoint.value
    IN  IF v = "reuse" /\ readout.valueAsPercent
        THEN percentFormatter(Ratio(readout.latestValue - value, 100), FALSE) \o " since"
        ELSE getPercentChange(value, readout.latestValue) \o " since"

\* hideHoverData: visual.ts hides the container and restores the footer;
\* part_000 hides the container only (the other two statements are commented out)
hideHoverData(W, v, l) ==
    [ W EXCEPT
        !.panels[l.panel].hover.invisible = IF Targets(W, l) THEN TRUE ELSE @,
        !.footer.hidden = IF v = "rebuild" THEN FALSE ELSE @ ]

\* hoverLine.classed("hidden", h) on the closure's hover line
SetHoverLine(W, l, h) ==
    [ W EXCEPT !.panels[l.panel].hoverLineHidden = IF Targets(W, l) THEN h ELSE @ ]

\* the mousemove / onMousemove closure of drawChart
onMousemove(W, v, l, e) ==
    LET env == l.env[1]
        i == dataBisector(env, LeftPosition(env, e), 1, Len(env.chartData))
    IN  IF InBounds(env, e)
        THEN IF i < Len(env.chartData)
             THEN showHoverData(SetHoverLine(W, l, FALSE), l, env.chartData[i + 1])
             ELSE SetHoverLine(W, l, FALSE)
        ELSE IF v = "rebuild"
             THEN hideHoverData(SetHoverLine(W, l, TRUE), v, l)
             ELSE hideHoverData(W, v, l)

\* the mouseout closure: drawChart's in visual.ts (it also hides the hover
\* line), initMouseEvents' in part_000
mouseout(W, v, l) ==
    IF v = "rebuild" THEN hideHoverData(SetHoverLine(W, l, TRUE), v, l) ELSE hideHoverData(W, v, l)

\* dispatch of event e on the host element: the listeners registered for its
\* type run in registration order, from listener i on
RECURSIVE dispatch(_, _, _, _)
dispatch(W, v, e, i) ==
    IF i > Len(W.listeners)
    THEN W
    ELSE LET l == W.closures[W.listeners[i].closure]
         IN  IF W.listeners[i].type # e.type
             THEN dispatch(W, v, e, i + 1)
             ELSE IF l.fn = "mousemove"
                  THEN dispatch(onMousemove(W, v, l, e), v, e, i + 1)
                  ELSE dispatch(mouseout(W, v, l), v, e, i + 1)

\* the listeners of the host element that run in one phase of an event's
\* dispatch (capture: on the way down to the target; otherwise on the way
\* back up), in registration order, from listener i on
RECURSIVE dispatchPhase(_, _, _, _, _)
dispatchPhase(W, v, e, capture, i) ==
    IF i > Len(W.listeners)
    THEN W
    ELSE LET l == W.closures[W.listeners[i].closure]
         IN  IF W.listeners[i].type # e.type \/ W.listeners[i].capture # capture
             THEN dispatchPhase(W, v, e, capture, i + 1)
             ELSE IF l.fn = "mousemove"
                  THEN dispatchPhase(onMousemove(W, v, l, e), v, e, capture, i + 1)
                  ELSE dispatchPhase(mouseout(W, v, l), v, e, capture, i + 1)

\* The elements a touch can land on: the warning icon, an info icon, a panel's
\* overlay rectangle (each with a touchstart handler of its own), or any
\* other place inside the svg.
InfoTarget(i) == "info:" \o ToString(i)

OverlayTarget(p) == "overlay:" \o p

TouchTargets(W) ==
    { "svg" }
    \cup (IF FooterGroup \in { W.svgChildren[i] : i \in 1 .. Len(W.svgChildren) }
          THEN (IF W.footer.warningIcon THEN { "warning" } ELSE { })
                   \cup { InfoTarget(i) : i \in 1 .. Len(W.footer.infoMessages) }
          ELSE { })
    \cup { OverlayTarget(p) :
             p \in { q \in PanelNames :
                       /\ ChartGroupOf(q) \in { W.svgChildren[i] : i \in 1 .. Len(W.svgChildren) }
                       /\ W.panels[q].tooltips # << >> } }

\* the text the element carries as its <title> (the overlay rectangle's most
\* recent one: the reuse variant appends one per update)
ElementMessage(W, target) ==
    IF target = "warning" THEN W.footer.warningTitle[1]
    ELSE IF \E i \in 1 .. Len(W.footer.infoMessages) : target = InfoTarget(i)
    THEN W.footer.infoMessages[CHOOSE i \in 1 .. Len(W.footer.infoMessages) :
                                   target = InfoTarget(i)]
    ELSE LET p == CHOOSE q \in PanelNames : target = OverlayTarget(q)
             titles == W.panels[p].tooltips
         IN  OverlayTooltipText(titles[Len(titles)])

\* the message the element's touchstart handler passes to showMobileTooltip:
\* the warning icon's reads this.data when the event arrives, an info icon's
\* is the message it was created with, the overlay rectangle's is that of the
\* latest drawChart (selection.on replaces the handler registered before)
HandlerMessage(W, target) ==
    IF target = "warning" THEN W.data[1].warningTooltipText ELSE ElementMessage(W, target)

\* showMobileTooltip(message): the popup is created on first use (and with it
\* the svg root's touchstart handler), the event's propagation is stopped,
\* the popup gets the message and loses class hidden
showMobileTooltip(tooltip, message) ==
    [ tooltip |-> Some([ hidden |-> FALSE, html |-> message ]), stopped |-> TRUE ]

\* hideMobileTooltip, as the svg root's touchstart handler calls it (the
\* handler exists once the popup does)
hideMobileTooltip(tooltip) ==
    IF IsNull(tooltip) THEN tooltip ELSE Some([ tooltip[1] EXCEPT !.hidden = TRUE ])

\* dispatch of a touchstart event e whose target is the element target: the
\* host's capturing listeners, then the element's own handler if it has one,
\* then, unless propagation was stopped, the svg root's handler and the
\* host's other listeners
touchstart(W, tooltip, v, target, e) ==
    LET W1 == dispatchPhase(W, v, e, TRUE, 1)
        shown == showMobileTooltip(tooltip, HandlerMessage(W1, target))
    IN  IF target # "svg" /\ shown.stopped
        THEN [ w |-> W1, tooltip |-> shown.tooltip ]
        ELSE [ w |-> dispatchPhase(W1, v, e, FALSE, 1),
               tooltip |-> hideMobileTooltip(IF target = "svg" THEN tooltip
                                             ELSE shown.tooltip) ]

----------------------------------------------------------------------------
(* The state machine *)

\* the event lies outside the bounds of every mousemove closure
Outside(W, e) ==
    \A i \in 1 .. Len(W.closures) :
        W.closures[i].fn = "mousemove" => ~InBounds(W.closures[i].env[1], e)

\* no helper has been called on its own yet
NoCall == [ fn |-> "", args |-> << >>, result |-> << >> ]

Install(W) ==
    /\ dataView' = W.dataView
    /\ data' = W.data
    /\ size' = W.size
    /\ sizeCssClass' = W.sizeCssClass
    /\ viewport' = W.viewport
    /\ svgAttrs' = W.svgAttrs
    /\ svgChildren' = W.svgChildren
    /\ panels' = W.panels
    /\ footer' = W.footer
    /\ closures' = W.closures
    /\ listeners' = W.listeners

Init ==
    /\ variant \in Variants
    /\ dataView = NewWidget(variant).dataView
    /\ data = NewWidget(variant).data
    /\ size = NewWidget(variant).size
    /\ sizeCssClass = NewWidget(variant).sizeCssClass
    /\ viewport = NewWidget(variant).viewport
    /\ svgAttrs = NewWidget(variant).svgAttrs
    /\ svgChildren = NewWidget(variant).svgChildren
    /\ panels = NewWidget(variant).panels
    /\ footer = NewWidget(variant).footer
    /\ closures = NewWidget(variant).closures
    /\ listeners = NewWidget(variant).listeners
    /\ nUpdates = 0
    /\ calc = NoCall
    /\ mobileTooltip = Null
    /\ last = [ op |-> "constructor", outcome |-> "", vp |-> BaseViewport,
                now |-> BaseNow, outside |-> FALSE, sameViewport |-> FALSE,
                target |-> "", destroyed |-> FALSE ]

\* the widget remembers a viewport equal to the clamped one of this update
\* (the case in which updateViewport writes no attribute)
SameViewport(W, vp) ==
    W.viewport = Some([ width |-> AvailableWidth(vp), height |-> AvailableHeight(vp) ])

\* the host calls update(options) with one of the inputs
UpdateFrom(inputs) ==
    /\ nUpdates < MaxUpdates
    /\ \E in \in inputs :
         LET r == update(Widget, variant, nUpdates + 1, in)
         IN  /\ Install(r.w)
             /\ last' = [ op |-> "update", outcome |-> r.outcome, vp |-> in.vp,
                          now |-> in.now, outside |-> FALSE,
                          sameViewport |-> SameViewport(Widget, in.vp),
                          target |-> "", destroyed |-> FALSE ]
    /\ nUpdates' = nUpdates + 1
    /\ UNCHANGED << variant, calc, mobileTooltip >>

Update == UpdateFrom(UpdateInputs)

UpdateLayout == UpdateFrom(LayoutInputs)

\* a mousemove, touchmove or touchstart event reaches the host element
PointerMoveAt(positions) ==
    /\ \E t \in MoveTypes, pos \in positions :
         LET e == [ type |-> t, x |-> pos.x, y |-> pos.y ]
         IN  /\ Install(dispatch(Widget, variant, e, 1))
             /\ last' = [ last EXCEPT !.op = "move", !.outside = Outside(Widget, e),
                                       !.target = "" ]
    /\ UNCHANGED << variant, nUpdates, calc, mobileTooltip >>

PointerMove == PointerMoveAt(Positions)

\* a mouseout or touchleave event reaches the host element
PointerOut ==
    /\ \E t \in OutTypes :
         LET e == [ type |-> t, x |-> 0, y |-> 0 ]
         IN  /\ Install(dispatch(Widget, variant, e, 1))
             /\ last' = [ last EXCEPT !.op = "out", !.outside = TRUE, !.target = "" ]
    /\ UNCHANGED << variant, nUpdates, calc, mobileTooltip >>

Next == Update \/ PointerMove \/ PointerOut

Spec == Init /\ [][Next]_vars

\* the same widget driven through the viewport and clock sweep
NextLayout == UpdateLayout \/ PointerMove \/ PointerOut

SpecLayout == Init /\ [][NextLayout]_vars

\* the widget drawn from a few data views and touched: the data views differ
\* in warning state, warning text, staleness and overlay figures
TouchInputs ==
    { [ dv |-> dv, vp |-> BaseViewport, now |-> BaseNow ] :
        dv \in { BaseDataView,
                 Bound(LayoutWarningLast, TRUE, BaseTable, CustomObjects),
                 Bound(LayoutNoWarning, TRUE, BaseTable, NoObjects),
                 Bound(LayoutWarningLast, TRUE, SubSeq(RowPool, 1, 1), NoObjects) } }

UpdateTouch == UpdateFrom(TouchInputs)

\* a touchstart event lands on an element of the widget
Touchstart ==
    /\ \E target \in TouchTargets(Widget), pos \in Positions :
         LET e == [ type |-> "touchstart", x |-> pos.x, y |-> pos.y ]
             r == touchstart(Widget, mobileTooltip, variant, target, e)
         IN  /\ Install(r.w)
             /\ mobileTooltip' = r.tooltip
             /\ last' = [ last EXCEPT !.op = "touch", !.outside = Outside(Widget, e),
                                       !.target = target ]
    /\ UNCHANGED << variant, nUpdates, calc >>

\* the host calls destroy() (the rebuild variant's; part_000 has no destroy)
Destroy ==
    /\ variant = "rebuild"
    /\ ~last.destroyed
    /\ Install(destroy(Widget))
    /\ last' = [ last EXCEPT !.op = "destroy", !.outside = FALSE, !.target = "",
                              !.destroyed = TRUE ]
    /\ UNCHANGED << variant, nUpdates, calc, mobileTooltip >>

\* the host calls update only on a widget it has not destroyed
UpdateLive == ~last.destroyed /\ Update

NextDestroy == UpdateLive \/ Destroy \/ PointerMove \/ PointerOut

SpecDestroy == Init /\ [][NextDestroy]_vars

\* the widget under the hover inputs and positions
UpdateHover == UpdateFrom(HoverInputs)

PointerMoveHover == PointerMoveAt(HoverPositions)

NextHover == UpdateHover \/ PointerMoveHover \/ PointerOut

SpecHover == Init /\ [][NextHover]_vars

NextTouch == UpdateTouch \/ Touchstart

SpecTouch == Init /\ [][NextTouch]_vars

\* the same widget driven through the axis settings
UpdateAxis == UpdateFrom(AxisInputs)

NextAxis == UpdateAxis

SpecAxis == Init /\ [][NextAxis]_vars

----------------------------------------------------------------------------
(* The helper functions called on their own *)

\* Each behaviour of SpecCalc calls one helper once, on a widget that has just
\* been constructed.

\* what a helper call leaves alone
WidgetVars ==
    << variant, dataView, data, size, sizeCssClass, viewport, svgAttrs, svgChildren,
       panels, footer, closures, listeners, nUpdates, mobileTooltip, last >>

Values == (0 - MaxValue) .. MaxValue

CallGetPercentChange ==
    /\ calc = NoCall
    /\ \E startValue \in Values, endValue \in Values :
         calc' = [ fn |-> "getPercentChange", args |-> << startValue, endValue >>,
                   result |-> getPercentChange(startValue, endValue) ]
    /\ UNCHANGED WidgetVars

\* every series of at most MaxPoints points; the value of a point tells its
\* position, so that points with equal dates differ
SeriesPool ==
    UNION { { [ i \in 1 .. n |-> [ date |-> f[i], value |-> 10 * i ] ] :
                f \in [ 1 .. n -> 1 .. MaxPoints ] } : n \in 0 .. MaxPoints }

\* reference dates: null, and every date from before the first to after the last
RefDates == { Null } \cup { Some(t) : t \in 0 .. MaxPoints + 1 }

CallGetPercentChangeStartPoint ==
    /\ calc = NoCall
    /\ \E chartData \in SeriesPool, percentCalcDate \in RefDates :
         calc' = [ fn |-> "getPercentChangeStartPoint",
                   args |-> << chartData, percentCalcDate >>,
                   result |-> getPercentChangeStartPoint(chartData, percentCalcDate) ]
    /\ UNCHANGED WidgetVars

\* the role under which panel p's measure is bound
ValuesRole(p) == IF p = "top" THEN "topvalues" ELSE "bottomvalues"

ChartNameOf(d, p) == IF p = "top" THEN d.topChartName ELSE d.bottomChartName

ValueAsPercentOf(d, p) == IF p = "top" THEN d.topValueAsPercent ELSE d.bottomValueAsPercent

\* format strings: the six symbols getFormatSymbol looks for and a digit
\* placeholder, in every order
FormatChars == FormatSymbols \cup { "#" }

Formats == UNION { [ 1 .. n -> FormatChars ] : n \in 0 .. MaxFormatLen }

\* the measure column of panel p carries format, the other one has none
FormatLayout(p, format) ==
    << Col({"axis"}, "d", "Date", << >>),
       Col({"topvalues"}, "t", "Sales", IF p = "top" THEN format ELSE << >>),
       Col({"bottomvalues"}, "b", "Units", IF p = "top" THEN << >> ELSE format),
       Col({"warningstate"}, "w", "State", << >>) >>

FormatDataViews ==
    { Bound(FormatLayout(p, format), TRUE, BaseTable, NoObjects) :
        p \in PanelNames, format \in Formats }

\* role sets a column may carry: none, each single role, and several at once
RoleSets ==
    { { } } \cup { { r } : r \in Roles }
        \cup { { "axis", "topvalues" }, { "topvalues", "bottomvalues" }, Roles }

\* the row fields the columns read, by column position
Srcs == << "t", "b", "d", "w", "p" >>

\* column i of a layout whose columns carry the role sets roleSets: its name,
\* source field and format differ from those of its neighbours
RoleLayout(roleSets) ==
    [ i \in 1 .. Len(roleSets) |->
        Col(roleSets[i], Srcs[((i - 1) % Len(Srcs)) + 1], "Column" \o ToString(i),
            IF i % 3 = 1 THEN << "%" >> ELSE IF i % 3 = 2 THEN << "$" >> ELSE << >>) ]

RoleDataViews ==
    { Bound(RoleLayout(roleSets), TRUE, BaseTable, NoObjects) :
        roleSets \in UNION { [ 1 .. n -> RoleSets ] : n \in 0 .. MaxColumns } }

ConverterDataViews == FormatDataViews \cup RoleDataViews

CallConverter ==
    /\ calc = NoCall
    /\ \E dv \in ConverterDataViews :
         calc' = [ fn |-> "converter",
                   args |-> << dv >>,
                   result |-> << converter(variant, dv, BaseNow) >> ]
    /\ UNCHANGED WidgetVars

NextCalc == CallGetPercentChange \/ CallGetPercentChangeStartPoint \/ CallConverter

SpecCalc == Init /\ [][NextCalc]_vars

----------------------------------------------------------------------------
(* The host asks for the formatting pane's content: any number of updates,
   then one call of enumerateObjectInstances, which assigns no field *)

\* options.objectName: the four groups and a name the visual does not know
RequestedNames == ObjectNames \cup { "general" }

UpdateUninspected == calc = NoCall /\ Update

EnumerateObjectInstances ==
    /\ calc = NoCall
    /\ \E objectName \in RequestedNames :
         calc' = [ fn |-> "enumerateObjectInstances",
                   args |-> << objectName >>,
                   result |-> enumerateObjectInstances(variant, dataView, objectName) ]
    /\ UNCHANGED WidgetVars

NextEnumerate == UpdateUninspected \/ EnumerateObjectInstances

SpecEnumerate == Init /\ [][NextEnumerate]_vars

----------------------------------------------------------------------------
(* What the properties below read off a state *)

Range(q) == { q[i] : i \in 1 .. Len(q) }

\* an update has been made and its data view has metadata columns
BoundUpdate == nUpdates > 0 /\ HasColumns(dataView)

\* the chart group of panel p / the footer group is a child of the svg
PanelPresent(p) == ChartGroupOf(p) \in Range(svgChildren)

FooterPresent == FooterGroup \in Range(svgChildren)

\* the hover readout of panel p is on display
HoverShown(p) == PanelPresent(p) /\ ~panels[p].hover.invisible

\* the rendered tree: the children of the svg and, for each group that is
\* among them, what the group displays
TreeOf(W) ==
    [ children |-> W.svgChildren,
      panels |-> [ p \in PanelNames |->
                     IF ChartGroupOf(p) \in Range(W.svgChildren)
                     THEN Some(W.panels[p])
                     ELSE Null ],
      footer |-> IF FooterGroup \in Range(W.svgChildren) THEN Some(W.footer) ELSE Null ]

\* the dates of a series increase from each point to the next
StrictlyAscending(chartData) ==
    \A i \in 1 .. Len(chartData) - 1 : chartData[i].date < chartData[i + 1].date

\* the role under which panel p's percent-change reference date is bound, the
\* property under which it is configured, and what the converter made of them
PercentDateRole(p) == IF p = "top" THEN "toppercentdate" ELSE "bottompercentdate"

PercentDateProperty(p) == IF p = "top" THEN "topPercentCalcDate" ELSE "bottomPercentCalcDate"

PercentCalcDateOf(d, p) == IF p = "top" THEN d.topPercentCalcDate ELSE d.bottomPercentCalcDate

ValuesOf(d, p) == IF p = "top" THEN d.topValues ELSE d.bottomValues

\* the warning state of a bound data view with rows: the last row's value in
\* the warningstate column, 0 without such a column
WarningStateOf(dv) ==
    LET col == RoleColumn(dv.cols, "warningstate", 0, -1)
    IN  IF col > -1 THEN Cell(dv, Len(RowsOf(dv)) - 1, col) ELSE 0

----------------------------------------------------------------------------
(* Properties *)

\* C1: in both variants, an update whose data view is absent, has no metadata
\* or has no columns completes without throwing and leaves the svg root with
\* no child elements, whatever earlier updates rendered.
C1_UnboundUpdateEmptiesSvg ==
    (nUpdates > 0 /\ ~HasColumns(dataView))
        => (svgChildren = << >> /\ last.outcome = "cleared")

\* C1 witness: a reuse-variant widget that had drawn charts is updated with a
\* data view without columns.
C1_ClearedAfterRender ==
    /\ variant = "reuse"
    /\ last.op = "update"
    /\ dataView.kind = "no-columns"
    /\ Len(closures) > Len(NewWidget(variant).closures)
    /\ svgChildren = << >>

\* C2: when the most recent update carries a bound data view with at least one
\* row, both chart panels and the footer are under the svg root, also when an
\* earlier update had cleared the widget.
C2_PanelsPresentWithData ==
    (BoundUpdate /\ Len(RowsOf(dataView)) >= 1)
        => ((\A p \in PanelNames : PanelPresent(p)) /\ FooterPresent)

\* C3: the tree an update leaves is determined by that update's input alone:
\* it is the tree the same update leaves on a newly constructed widget (so
\* update(x); update(x) leaves what update(x) leaves, with the same number of
\* date-range labels, info icons and overlay tooltip titles).
C3_TreeDeterminedByLastUpdate ==
    last.op = "update"
        => TreeOf(Widget) =
               TreeOf(update(NewWidget(variant), variant, nUpdates,
                             [ dv |-> dataView, vp |-> last.vp, now |-> last.now ]).w)

\* C4: when the most recent update carried a bound data view and rendered,
\* the footer displays a warning icon, with the configured warning text as its
\* tooltip, exactly when the warning state that update computed is negative
\* (no icon for warning state 0, whatever earlier updates had).
C4_WarningIconIffNegative ==
    (BoundUpdate /\ last.outcome = "rendered")
        => /\ (FooterPresent /\ footer.warningIcon) <=> WarningNegative(data[1])
           /\ (FooterPresent /\ footer.warningIcon)
                  => footer.warningTitle = Some(data[1].warningTooltipText)

\* C5: a hover readout on display after a move / touch event was computed
\* from the data and scales of the most recent update.
C5_ReadoutFromLatestUpdate ==
    last.op = "move"
        => \A p \in PanelNames :
               (HoverShown(p) /\ ~IsNull(panels[p].hover.readout))
                   => panels[p].hover.readout[1].by = nUpdates

\* C6: the number of pointer / touch listeners on the host element is the
\* same after any number of updates.
C6_ListenerCountConstant ==
    Len(listeners) = Len(NewWidget(variant).listeners)

\* C7: in both variants, when a hover readout is on display, a mouseout /
\* touchleave event or a move outside the chart bounds leaves every readout
\* invisible, every hover line hidden and the footer visible (without class
\* "hidden").
C7_LeaveRestores ==
    [][ ( /\ \E p \in PanelNames : HoverShown(p)
          /\ last'.op = "out" \/ (last'.op = "move" /\ last'.outside) )
        => ( /\ \A p \in PanelNames :
                  PanelPresent(p)' =>
                      (panels'[p].hover.invisible /\ panels'[p].hoverLineHidden)
             /\ ~footer'.hidden ) ]_vars

\* C8: in both variants, an update whose data view has metadata columns but
\* no table or no rows completes without throwing.
C8_EmptyTableDoesNotThrow ==
    (BoundUpdate /\ Len(RowsOf(dataView)) = 0) => ~Threw(last.outcome)

\* C9: in both variants, the converter's warningState for a table with at
\* least one row is the last row's value in the warningstate column, wherever
\* that column is (index 0 included), and 0 when no column has the role.
C9_WarningStateFromLastRow ==
    (BoundUpdate /\ Len(RowsOf(dataView)) >= 1 /\ ~Threw(last.outcome))
        => data = Some([ data[1] EXCEPT !.warningState = Some(WarningStateOf(dataView)) ])

C12_ZeroStartIsNotApplicable ==
    (calc.fn = "getPercentChange" /\ calc.args[1] = 0) => calc.result = "n/a"

\* C12 witness: getPercentChange has been called with start value 0 and a
\* nonzero end value.
C12_ZeroStartCalled ==
    /\ calc.fn = "getPercentChange"
    /\ calc.args[1] = 0
    /\ calc.args[2] # 0
    /\ calc.result = "n/a"

\* C13: for a nonzero start value S of either sign and every end value E,
\* getPercentChange(S, E) is "-N.N%" when E < S and "+N.N%" otherwise, where
\* N.N is |E - S| / |S| * 100 rounded to one decimal (off by at most half a
\* tenth from the exact quotient).
C13_SignedPercentChange ==
    (calc.fn = "getPercentChange" /\ calc.args[1] # 0)
        => LET S == Abs(calc.args[1])
               d == Abs(calc.args[2] - calc.args[1])
               lo == (1000 * d) \div S
           IN  \E n \in { lo, lo + 1 } :
                   /\ Abs(2 * S * n - 2000 * d) <= S
                   /\ calc.result =
                          (IF calc.args[2] < calc.args[1] THEN "-" ELSE "+")
                              \o ToString(n \div 10) \o "." \o ToString(n % 10) \o "%"

\* C13 witness: a negative start value, a larger end value, and a quotient
\* (6.25 percent) that lies halfway between two tenths.
C13_NegativeStartHalfway ==
    /\ calc.fn = "getPercentChange"
    /\ calc.args = << 0 - 16, 0 - 15 >>
    /\ calc.result = "+6.3%"

\* C14: for every non-empty series S, getPercentChangeStartPoint(S, null)
\* returns S[0].
C14_NullDateGivesFirstPoint ==
    (/\ calc.fn = "getPercentChangeStartPoint"
     /\ Len(calc.args[1]) > 0
     /\ IsNull(calc.args[2]))
        => calc.result = Some(calc.args[1][1])

\* C14 witness: the function was called without a reference date on a series
\* of several points whose first point is not the earliest.
C14_NullDateCalled ==
    /\ calc.fn = "getPercentChangeStartPoint"
    /\ IsNull(calc.args[2])
    /\ Len(calc.args[1]) = MaxPoints
    /\ calc.args[1][1].date > calc.args[1][2].date
    /\ calc.result = Some(calc.args[1][1])

\* C15 as stated: for every non-empty series S, every index i and a reference
\* date D equal to S[i].date, getPercentChangeStartPoint(S, D) returns S[i].
C15_ExactDateGivesThatPoint ==
    (calc.fn = "getPercentChangeStartPoint" /\ ~IsNull(calc.args[2]))
        => \A i \in 1 .. Len(calc.args[1]) :
               calc.args[1][i].date = calc.args[2][1]
                   => calc.result = Some(calc.args[1][i])

\* C15 amended: the same for every non-empty series whose dates strictly
\* increase.
C15_ExactDateGivesThatPointAscending ==
    (/\ calc.fn = "getPercentChangeStartPoint"
     /\ ~IsNull(calc.args[2])
     /\ StrictlyAscending(calc.args[1]))
        => \A i \in 1 .. Len(calc.args[1]) :
               calc.args[1][i].date = calc.args[2][1]
                   => calc.result = Some(calc.args[1][i])

\* C15 witness: the reference date is the date of the middle point of a
\* strictly ascending series of three, and that point is returned.
C15_MiddlePointMatched ==
    /\ calc.fn = "getPercentChangeStartPoint"
    /\ Len(calc.args[1]) = 3
    /\ StrictlyAscending(calc.args[1])
    /\ calc.args[2] = Some(calc.args[1][2].date)
    /\ calc.result = Some(calc.args[1][2])

\* C16: after an update that rendered a table with at least one row, for
\* each panel: when no column carries the panel's percent-date role and no
\* reference date is configured, the reference point update passes to the
\* panel is the first point of its series, for every date-ascending
\* series whatever its dates (dates before 1970-01-01 included); when a
\* column carries the role, the reference date is that column's value in the
\* first row.
C16_DefaultReferenceIsFirstPoint ==
    (BoundUpdate /\ last.op = "update" /\ last.outcome = "rendered"
        /\ Len(RowsOf(dataView)) >= 1)
        => \A p \in PanelNames :
               LET col == RoleColumn(dataView.cols, PercentDateRole(p), 0, -1)
                   configured == getNullable(dataView.objects, "dualKpiProperties",
                                             PercentDateProperty(p))
                   S == ValuesOf(data[1], p)
                   passed == ChartOptions(data[1], p, 0, 0, 0).percentChangeStartPoint
               IN  /\ (col = -1 /\ IsNull(configured) /\ StrictlyAscending(S))
                         => passed = Some(S[1])
                   /\ col > -1 => PercentCalcDateOf(data[1], p) = Cell(dataView, 0, col)

\* C17: the converter sets a panel's value-as-percent flag to true exactly
\* when the format string of the column resolved for the panel's measure role
\* contains "%", whatever other symbols it contains and wherever they occur,
\* and to false when it contains none or is absent.
C17_PercentFlagIffFormatHasPercent ==
    (calc.fn = "converter" /\ ~calc.result[1].threw)
        => \A p \in PanelNames :
               LET cols == calc.args[1].cols
                   col == RoleColumn(cols, ValuesRole(p), 0, -1)
               IN  col > -1 =>
                       (ValueAsPercentOf(calc.result[1].data, p)
                            <=> "%" \in Range(cols[col + 1].format))

\* C18: after an update that rendered, for each panel whose measure role is
\* bound: when the panel's value-as-percent flag is set, every stored value
\* is the raw value times 100 and the panel's latest-value overlay text is
\* the stored latest value divided by 100 rendered by the percent formatter
\* (the raw value times 100 with one decimal and "%"); without the flag the
\* stored values are the raw values.
C18_PercentRoundTrip ==
    (BoundUpdate /\ last.op = "update" /\ last.outcome = "rendered")
        => \A p \in PanelNames :
               LET col == RoleColumn(dataView.cols, ValuesRole(p), 0, -1)
                   S == ValuesOf(data[1], p)
                   flag == ValueAsPercentOf(data[1], p)
                   raw(i) == Cell(dataView, i - 1, col)
               IN  col > -1 =>
                     /\ \A i \in 1 .. Len(S) :
                            S[i].value = IF flag THEN 100 * raw(i) ELSE raw(i)
                     /\ (flag /\ Len(S) > 0) =>
                            /\ PanelPresent(p)
                            /\ ~IsNull(panels[p].overlay)
                            /\ DataValueText(panels[p].overlay[1])
                                  = toFixed1(Ratio(100 * raw(Len(S)), 1)) \o "%"

\* the columns of cols carrying role r, 0-based
Carrying(cols, r) == { i - 1 : i \in { j \in 1 .. Len(cols) : r \in cols[j].roles } }

\* C19: the converter resolves each of the six roles to the greatest index of
\* a column carrying it and to -1 when none does, whether or not the column
\* carries other roles too; a panel's title, format symbol and values are those
\* of the last column carrying its measure role, the dates those of the last
\* axis column, and a reference date that of the last percent-date column.
C19_LastMatchingColumnWins ==
    (calc.fn = "converter" /\ ~calc.result[1].threw)
        => LET dv == calc.args[1]
               cols == dv.cols
               d == calc.result[1].data
               Resolved(r) == RoleColumn(cols, r, 0, -1)
           IN  /\ \A r \in Roles : Resolved(r) = SetMax({ -1 } \cup Carrying(cols, r))
               /\ \A p \in PanelNames :
                     LET col == SetMax({ -1 } \cup Carrying(cols, ValuesRole(p)))
                         dateCol == SetMax({ -1 } \cup Carrying(cols, PercentDateRole(p)))
                         axisCol == SetMax({ -1 } \cup Carrying(cols, "axis"))
                         S == ValuesOf(d, p)
                     IN  /\ Len(S) = Len(RowsOf(dv))
                         /\ col = -1 =>
                               /\ ChartNameOf(d, p) = "" /\ ~ValueAsPercentOf(d, p)
                               /\ \A i \in 1 .. Len(S) : S[i].value = 0
                         /\ col > -1 =>
                               /\ ChartNameOf(d, p) = cols[col + 1].displayName
                               /\ ValueAsPercentOf(d, p)
                                     = (getFormatSymbol(cols[col + 1].format) = "%")
                               /\ \A i \in 1 .. Len(S) :
                                     S[i].value = (IF ValueAsPercentOf(d, p) THEN 100 ELSE 1)
                                                      * Cell(dv, i - 1, col)
                         /\ axisCol > -1 =>
                               \A i \in 1 .. Len(S) : S[i].date = Cell(dv, i - 1, axisCol)
                         /\ (dateCol > -1 /\ Len(S) > 0) =>
                               PercentCalcDateOf(d, p) = Cell(dv, 0, dateCol)

\* the converter was given three columns of which the first and the last
\* carry topvalues, the last one together with other roles, and took the
\* top panel's title from the last
C19_RepeatedRoleResolved ==
    /\ calc.fn = "converter"
    /\ Len(calc.args[1].cols) = 3
    /\ Carrying(calc.args[1].cols, "topvalues") = { 0, 2 }
    /\ Carrying(calc.args[1].cols, "bottomvalues") = { 2 }
    /\ Carrying(calc.args[1].cols, "warningstate") = { }
    /\ RoleColumn(calc.args[1].cols, "topvalues", 0, -1) = 2
    /\ RoleColumn(calc.args[1].cols, "warningstate", 0, -1) = -1
    /\ calc.result[1].data.topChartName = "Column3"
    /\ ~calc.result[1].data.topValueAsPercent

\* C20: in every widget state, enumerateObjectInstances for one of the four
\* group names returns exactly one instance in which every property of the
\* group has its effective value, the persisted value when one is defined and
\* the hard-coded default otherwise; for any other name it returns an empty
\* list.
C20_EnumerateGivesEffectiveValues ==
    calc.fn = "enumerateObjectInstances"
        => LET objectName == calc.args[1]
               result == calc.result
               Effective(n) ==
                   IF objectName \in DOMAIN dataView.objects
                          /\ n \in DOMAIN dataView.objects[objectName]
                   THEN Defined(Some(dataView.objects[objectName][n]))
                   ELSE Defined(DefaultOf(variant, n))
           IN  IF objectName \in ObjectNames
               THEN /\ Len(result) = 1
                    /\ result[1].objectName = objectName
                    /\ DOMAIN result[1].properties = PropertyNames(variant, objectName)
                    /\ \A n \in PropertyNames(variant, objectName) :
                          result[1].properties[n] = Effective(n)
               ELSE result = << >>

\* C21: after an update that rendered a non-empty top series, the footer shows
\* an info icon if and only if showStaleDataWarning is set and the whole
\* number of days N between the clock and the last top point is at least
\* staleDataThreshold; every info icon shown carries the message for N.
C21_InfoIconIffStale ==
    (BoundUpdate /\ last.op = "update" /\ last.outcome = "rendered"
        /\ Len(data[1].topValues) > 0)
        => LET d == data[1]
               N == getDaysBetween(d.topValues[Len(d.topValues)].date, last.now)
               shown == FooterPresent /\ footer.infoIcons # << >>
           IN  /\ shown <=> (d.showStaleDataWarning /\ N >= d.staleDataThreshold)
               /\ shown => \A i \in 1 .. Len(footer.infoIcons) :
                              InfoMessage(d, footer.infoIcons[i]) = InfoMessage(d, N)

\* the configured axis bound of panel p in the data view dv: Null when none
ConfiguredBound(p, which) ==
    getNullable(dataView.objects, "dualKpiAxis", p \o "ChartAxis" \o which)

\* C22: after an update that rendered, for each panel with a non-empty
\* series the Y axis is built with exactly two tick values, the first being
\* the configured minimum when there is one and the least value of the series
\* otherwise, the second the configured maximum when there is one and the
\* greatest value otherwise, each resolved without regard to the other; in
\* the rebuild variant these are the ticks the panel shows.
C22_TwoTicksFromBoundsOrRange ==
    (BoundUpdate /\ last.op = "update" /\ last.outcome = "rendered")
        => \A p \in PanelNames :
               LET S == ValuesOf(data[1], p)
                   values == { S[i].value : i \in 1 .. Len(S) }
                   cmin == ConfiguredBound(p, "Min")
                   cmax == ConfiguredBound(p, "Max")
                   ticks == AxisTicks(ChartOptions(data[1], p, 0, 0, 0))
               IN  Len(S) > 0 =>
                     /\ Len(ticks) = 2
                     /\ ticks[1] = IF IsNull(cmin)
                                   THEN CHOOSE x \in values : \A y \in values : x <= y
                                   ELSE cmin[1]
                     /\ ticks[2] = IF IsNull(cmax)
                                   THEN CHOOSE x \in values : \A y \in values : x >= y
                                   ELSE cmax[1]
                     /\ variant = "rebuild" => panels[p].ticks = ticks

\* values 10 and 20 drawn at 300 x 500 (size class large) with only the
\* minimum configured, at 15: the top panel shows the ticks 15 and 20
C22_OnlyMinimumConfigured ==
    /\ BoundUpdate /\ last.op = "update" /\ last.outcome = "rendered"
    /\ variant = "rebuild" /\ last.vp = AxisViewport /\ size = "large"
    /\ ConfiguredBound("top", "Min") = Some(15) /\ IsNull(ConfiguredBound("top", "Max"))
    /\ AxisTicks(ChartOptions(data[1], "top", 0, 0, 0)) = << 15, 20 >>
    /\ panels["top"].ticks = << 15, 20 >>

\* C23: a touchstart on the warning icon, an info icon or a panel's overlay
\* rectangle leaves the mobile tooltip visible and showing that element's
\* message, and changes nothing else: neither the svg root's hiding handler
\* nor the host's hover handlers act on the event, so the hover readouts, the
\* hover lines and the footer are as before.
C23_TouchOnIconShowsItsMessage ==
    [][ (last'.op = "touch" /\ last'.target # "svg")
            => /\ mobileTooltip'
                     = Some([ hidden |-> FALSE,
                              html |-> ElementMessage(Widget, last'.target) ])
               /\ UNCHANGED << panels, footer, svgChildren, closures, listeners, data >>
      ]_vars

\* C24: (rebuild variant) destroy leaves the svg root without children, data
\* and dataView null and none of the listeners of earlier updates on the host
\* element, so that an event arriving afterwards changes nothing of the widget.
C24_DestroyLeavesNothingBehind ==
    [][ /\ last'.op = "destroy"
            => /\ svgChildren' = << >>
               /\ data' = Null
               /\ ~HasColumns(dataView')
               /\ listeners' = << >>
        /\ (last.destroyed /\ last'.op \in { "move", "out" })
            => UNCHANGED << dataView, data, size, sizeCssClass, viewport, svgAttrs,
                            svgChildren, panels, footer, closures, listeners,
                            mobileTooltip >>
      ]_vars

\* the point difference n written with its sign and one decimal
SignedPoints(n) == (IF n >= 0 THEN "+" ELSE "") \o toFixed1(Ratio(n, 1)) \o "%"

\* C25: for a panel of percentages every change figure is the point
\* difference (end less reference) written as a signed N.N%: the overlay's
\* figure (reference: the reference point, also when its value is 0) and the
\* hover readout's change-since figure (reference: the hovered point, end:
\* the latest value).
C25_PercentPanelsShowPointDifference ==
    \A p \in PanelNames :
        /\ (BoundUpdate /\ PanelPresent(p) /\ ~IsNull(data)
                /\ ValueAsPercentOf(data[1], p) /\ Len(ValuesOf(data[1], p)) > 0
                /\ last.op = "update" /\ last.outcome = "rendered")
            => LET o == ChartOptions(data[1], p, 0, 0, 0)
                   t == panels[p].tooltips[Len(panels[p].tooltips)]
               IN  t.percentChange
                       = SignedPoints(o.chartData[Len(o.chartData)].value
                                          - o.percentChangeStartPoint[1].value)
        /\ (HoverShown(p) /\ ~IsNull(panels[p].hover.readout)
                /\ panels[p].hover.readout[1].valueAsPercent)
            => LET r == panels[p].hover.readout[1]
               IN  HoverPercentText(variant, r)
                       = SignedPoints(r.latestValue - r.dataPoint.value) \o " since"

\* the mousemove closures the latest update created for panel p (they hold
\* the width and height drawChart was called with)
LatestEnvs(p) ==
    { closures[i].env[1] :
        i \in { j \in 1 .. Len(closures) :
                  /\ closures[j].fn = "mousemove"
                  /\ closures[j].panel = p
                  /\ closures[j].by = nUpdates } }

\* C26: after an update that rendered at viewport W x H (clamped to at least
\* 220 x 90), each panel is drawn with height (H - spacing - titleSpace) / 2
\* and the full clamped width, (spacing, titleSpace) being (25, 46) for large,
\* (20, 30) for medium, (15, 22) for small and (6, 18) for extra-small; the
\* top panel starts at 0 and the bottom panel at that height plus spacing; the
\* drawable height (height less 5) and the drawable width (width less the
\* left margin) are strictly positive.  Heights are doubled.
C26_PanelsShareTheHeight ==
    (BoundUpdate /\ last.op = "update" /\ last.outcome = "rendered")
        => LET H == IF last.vp.height < 90 THEN 90 ELSE last.vp.height
               Wd == IF last.vp.width < 220 THEN 220 ELSE last.vp.width
               spacing == IF H >= 450 THEN 25 ELSE IF H >= 280 THEN 20
                          ELSE IF H >= 120 THEN 15 ELSE 6
               titleSpace == IF H >= 450 THEN 46 ELSE IF H >= 280 THEN 30
                             ELSE IF H >= 120 THEN 22 ELSE 18
               left == IF H >= 280 THEN 40 ELSE 30
               chartHeight2 == H - spacing - titleSpace
           IN  \A p \in PanelNames :
                   PanelPresent(p)
                       => /\ LatestEnvs(p) # { }
                          /\ \A env \in LatestEnvs(p) :
                                 /\ env.width = Wd
                                 /\ env.height2 = chartHeight2
                                 /\ env.height2 - 2 * 5 > 0
                                 /\ env.width - left > 0
                                 /\ env.calcWidth = env.width - left
                          /\ panels[p].translate
                                 = Some(<< left,
                                           (IF p = "top" THEN 0
                                            ELSE chartHeight2 + 2 * spacing) + 2 * 5 >>)

\* a viewport lower and narrower than the minimum was rendered with both panels
C26_ClampedViewportRendered ==
    /\ BoundUpdate /\ last.op = "update" /\ last.outcome = "rendered"
    /\ last.vp.height < MinHeight
    /\ \A p \in PanelNames :
           PanelPresent(p) /\ \E env \in LatestEnvs(p) : env.height2 = 66

\* the events of specification SpecHover
HoverEvents ==
    { [ type |-> t, x |-> pos.x, y |-> pos.y ] : t \in MoveTypes, pos \in HoverPositions }

\* C27: when a pointer position passes a mousemove closure's bounds check,
\* the point the closure writes to its panel's hover readout is chartData[i],
\* i the smallest index whose date is at or after the cursor's time (the
\* inverse of the horizontal scale at the position); when no point is at or
\* after that time, the closure writes no point.
C27_ReadoutIsFirstPointAtOrAfterCursor ==
    \A k \in 1 .. Len(closures) :
        LET l == closures[k]
        IN  (l.fn = "mousemove" /\ Targets(Widget, l) /\ panels[l.panel].intact)
                => \A e \in HoverEvents :
                       LET env == l.env[1]
                           atOrAfter ==
                               { i \in 1 .. Len(env.chartData) :
                                   ~BeforeCursor(env, env.chartData[i].date,
                                                 LeftPosition(env, e)) }
                           written == onMousemove(Widget, variant, l, e)
                                          .panels[l.panel].hover.readout
                       IN  InBounds(env, e)
                               => IF atOrAfter = { }
                                  THEN written = panels[l.panel].hover.readout
                                  ELSE /\ written # Null
                                       /\ written[1].dataPoint
                                              = env.chartData[SetMin(atOrAfter)]
                                       /\ written[1].by = l.by

\* C28: after any sequence of updates with non-empty series, each panel shows
\* the zero-reference line exactly when its zero-line flag is set in the most
\* recent update, and its Y-axis ticks are those of the most recent update.
C28_ZeroLineAndTicksFollowLastUpdate ==
    (BoundUpdate /\ last.op = "update" /\ last.outcome = "rendered")
        => \A p \in PanelNames :
               PanelPresent(p)
                   => LET o == ChartOptions(data[1], p, 0, 0, 0)
                      IN  /\ panels[p].zeroLine = o.showZeroLine
                          /\ panels[p].ticks = AxisTicks(o)

\* the point the claim names: the last point of S dated at or before D, S[0]
\* when there is none
LastAtOrBefore(S, D) ==
    LET atOrBefore == { i \in 1 .. Len(S) : S[i].date <= D }
    IN  IF atOrBefore = { } THEN S[1] ELSE S[SetMax(atOrBefore)]

\* C29 as stated: for a non-empty series S whose dates ascend (equal
\* neighbours allowed) and a non-null reference date D,
\* getPercentChangeStartPoint(S, D) returns the last point dated at or before
\* D: S[0] when D precedes every point, the last point when D follows every
\* point.
C29_StartPointIsLastAtOrBefore ==
    (/\ calc.fn = "getPercentChangeStartPoint"
     /\ Len(calc.args[1]) > 0
     /\ ~IsNull(calc.args[2])
     /\ \A i \in 1 .. Len(calc.args[1]) - 1 :
            calc.args[1][i].date <= calc.args[1][i + 1].date)
        => calc.result = Some(LastAtOrBefore(calc.args[1], calc.args[2][1]))

\* C29 amended: the same for every non-empty series whose dates strictly
\* increase.
C29_StartPointIsLastAtOrBeforeStrict ==
    (/\ calc.fn = "getPercentChangeStartPoint"
     /\ Len(calc.args[1]) > 0
     /\ ~IsNull(calc.args[2])
     /\ StrictlyAscending(calc.args[1]))
        => calc.result = Some(LastAtOrBefore(calc.args[1], calc.args[2][1]))

\* C29 witness: the reference date lies strictly between the dates of two
\* neighbours of a strictly ascending series, and the earlier one is returned.
C29_ReferenceBetweenNeighbours ==
    /\ calc.fn = "getPercentChangeStartPoint"
    /\ Len(calc.args[1]) = 2
    /\ StrictlyAscending(calc.args[1])
    /\ ~IsNull(calc.args[2])
    /\ calc.args[1][1].date < calc.args[2][1]
    /\ calc.args[2][1] < calc.args[1][2].date
    /\ calc.result = Some(calc.args[1][1])

\* C30: for one horizontal client coordinate and one size class a mouse event
\* and a touch event give a mousemove closure the same hover position, the
\* coordinate less the panel's left margin (40 for medium and large, 30
\* otherwise), and hence the same outcome.
C30_TouchAndMouseAgree ==
    \A k \in 1 .. Len(closures) :
        LET l == closures[k]
        IN  l.fn = "mousemove"
                => LET env == l.env[1]
                   IN  /\ l.by = nUpdates
                           => env.marginLeft
                                  = IF size \in { "medium", "large" } THEN 40 ELSE 30
                       /\ \A pos \in HoverPositions, t \in MoveTypes :
                              LET e == [ type |-> t, x |-> pos.x, y |-> pos.y ]
                                  mouse == [ e EXCEPT !.type = "mousemove" ]
                              IN  /\ LeftPosition(env, e) = pos.x - env.marginLeft
                                  /\ onMousemove(Widget, variant, l, e)
                                         = onMousemove(Widget, variant, l, mouse)

=============================================================================
